---- MODULE Spec2Model ----
(***************************************************************************)
(* State-machine model of the token launcher's transaction core:           *)
(*   src/src/utils.jsx            retryAsync, sendAndConfirmTransaction,    *)
(*                                createToken, createMeteoraPool,          *)
(*                                addPoolLiquidity, removePoolLiquidity     *)
(*   src/meteoraService.js        createToken, createPool, swap,           *)
(*                                claimRewards                             *)
(*   src/src/utils/solana-compat.js  sendAndConfirmCompatible              *)
(*                                                                         *)
(* One call of one exported function is modelled at a time: a Start action *)
(* picks the function and its arguments, the following actions are the     *)
(* function's awaits in program order, and pc = "done" is the state in     *)
(* which the returned promise has settled (result.status says how).        *)
(* Every remote call (RPC node, SDK) answers nondeterministically.         *)
(***************************************************************************)
EXTENDS Integers, Sequences, FiniteSets, TLC

VARIABLES
  op,         \* the exported function that was called ("none" before the call)
  pc,         \* position inside the call
  args,       \* the arguments of the call
  net,        \* log of the remote calls made so far, in order
  sleeps,     \* log of the sleep(ms) durations awaited so far, in order
  attempt,    \* retryAsync: the loop variable `attempt`
  lastError,  \* retryAsync: the local `lastError`
  local,      \* the other locals of the running function
  result      \* how the returned promise settled

vars == <<op, pc, args, net, sleeps, attempt, lastError, local, result>>

----------------------------------------------------------------------------
(* Bounds of the model *)

\* largest maxAttempts passed to a direct call of retryAsync
MaxAttemptsBound == 4

\* a second, non-default delayMs passed to a direct call of retryAsync
AltDelayMs == 7

\* The most pools a market lists.
MaxPools == 3

\* The most trades a pool reports, and the latest timestamp among them.
MaxTrades == 3

\* The most callbacks of the wallet context called in one session.
MaxSessionCalls == 3

\* The callbacks of the create-token page called after it mounted.
MaxPageCalls == 2

\* The times the wallet connects or disconnects while the page is mounted.
MaxWalletChanges == 2

----------------------------------------------------------------------------
(* Program constants *)

\* retryAsync = async (fn, maxAttempts = 3, delayMs = 1000)
DEFAULT_MAX_ATTEMPTS == 3
DEFAULT_DELAY_MS == 1000

----------------------------------------------------------------------------
(* Values *)

\* An Error object: its code (undefined for a plain Error: ""), its message,
\* and the position in `net` of the remote call that threw it (0: thrown by
\* the function's own code); the position tells two throws apart.
MkError(code, msg, id) == [code |-> code, msg |-> msg, id |-> id]

NoError == MkError("", "", 0)

\* The messages a failing remote call rejects with.  The spec (4.1) classes
\* "insufficient funds" as terminal and the other two as transient; the code
\* never looks at the class.
RemoteErrMsgs == {"node busy", "blockhash expired", "insufficient funds"}

Pending == [status |-> "pending"]

Resolved(v) == [status |-> "ok", value |-> v]

Rejected(e) == [status |-> "error", error |-> e]

\* A record of `net`: the call, what was passed to it (a tuple), whether it
\* resolved, and what it resolved with or the message it rejected with.
NetEntry(name, arg, ok, info) == [name |-> name, arg |-> arg, ok |-> ok, info |-> info]

Count(log, name) == Cardinality({i \in 1..Len(log) : log[i].name = name})

Calls(log, name) == {i \in 1..Len(log) : log[i].name = name}

----------------------------------------------------------------------------
(* retryAsync, src/src/utils.jsx 556-572 *)

\* maxAttempts and delayMs of the running retryAsync: the arguments of a
\* direct call, the defaults for sendAndConfirmTransaction (which passes
\* neither), and 3 with the default delay for the domain operations.
RetryMax == IF op = "retryAsync" THEN args.maxAttempts ELSE DEFAULT_MAX_ATTEMPTS

\* A delay that doubles per attempt instead of growing linearly.
BackoffExponential(delayMs, n) == delayMs * 2^(n - 1)

\* sleep(delayMs * attempt)
Backoff(delayMs, n) == delayMs * n

\* A catch that keeps the first error instead of the latest.
CaughtKeepFirst(prev, e) == IF prev = NoError THEN e ELSE prev

\* lastError = error
Caught(prev, e) == e

\* if (attempt < maxAttempts)
SleepsAfter(n, max) == n < max

\* let lastError; for (let attempt = 1; ...
RetryEnter ==
  /\ attempt' = 1
  /\ lastError' = NoError

\* fn() rejected with e in iteration `attempt`: the catch block up to its
\* await.  Before the last attempt it calls sleep and the function rests
\* with the timer pending (the caller moves pc to the sleeping position of
\* its loop); after the last attempt there is no sleep and the loop's
\* increment follows at once.
RetryCatch(e) ==
  /\ lastError' = Caught(lastError, e)
  /\ attempt' = IF SleepsAfter(attempt, RetryMax) THEN attempt ELSE attempt + 1
  /\ sleeps' = sleeps

\* After the increment the loop test attempt <= maxAttempts fails: the loop
\* ends and `throw lastError` runs.
RetryExhausted == ~(attempt + 1 <= RetryMax)

\* The timer of sleep(delayMs * attempt) fires: the sleep is over, the loop
\* increments attempt and calls fn() again.  The sleeping positions are one
\* per retried closure, each resuming at the closure's first call.
RetrySleepFires ==
  LET resume == [retry_sleep |-> "retry_fn", sc_sleep |-> "sc_send",
                 cp_create_sleep |-> "cp_create", al_load_sleep |-> "al_load",
                 al_add_sleep |-> "al_add", rl_remove_sleep |-> "rl_remove"]
  IN /\ pc \in DOMAIN resume
     /\ sleeps' = Append(sleeps, Backoff(IF op = "retryAsync"
                                           THEN args.delayMs
                                           ELSE DEFAULT_DELAY_MS,
                                         attempt))
     /\ attempt' = attempt + 1
     /\ pc' = resume[pc]
     /\ UNCHANGED <<op, args, net, lastError, local, result>>

----------------------------------------------------------------------------
(* A direct call retryAsync(fn, maxAttempts, delayMs) with an opaque fn *)

StartRetryAsync ==
  /\ pc = "idle"
  /\ \E m \in 1..MaxAttemptsBound, d \in {DEFAULT_DELAY_MS, AltDelayMs} :
       args' = [maxAttempts |-> m, delayMs |-> d]
  /\ op' = "retryAsync"
  /\ pc' = "retry_fn"
  /\ RetryEnter
  /\ UNCHANGED <<net, sleeps, local, result>>

\* One iteration of the loop: await fn(), then `return await fn()` leaves
\* retryAsync at once, or the catch block runs.
RetryFnResolves ==
  /\ op = "retryAsync" /\ pc = "retry_fn"
  /\ \E v \in {"v1", "v2"} :
       /\ net' = Append(net, NetEntry("fn", <<>>, TRUE, v))
       /\ result' = Resolved(v)
  /\ pc' = "done"
  /\ UNCHANGED <<attempt, lastError, sleeps>>
  /\ UNCHANGED <<op, args, local>>

RetryFnRejects ==
  /\ op = "retryAsync" /\ pc = "retry_fn"
  /\ \E m \in RemoteErrMsgs :
       /\ net' = Append(net, NetEntry("fn", <<>>, FALSE, m))
       /\ RetryCatch(MkError("", m, Len(net) + 1))
       /\ IF RetryExhausted
            THEN pc' = "done" /\ result' = Rejected(lastError')
            ELSE pc' = "retry_sleep" /\ result' = result
  /\ UNCHANGED <<op, args, local>>

----------------------------------------------------------------------------
(* sendAndConfirmTransaction, src/src/utils.jsx 575-610 *)

\* The k-th successful getLatestBlockhash answers block reference k.
NextBlockRef == 1 + Cardinality({i \in 1..Len(net) :
                      net[i].name = "getLatestBlockhash" /\ net[i].ok})

\* The signature of the serialized transaction: it is a function of the
\* signed bytes, which differ exactly when the embedded blockhash differs.
Signature(recentBlockhash) == <<"sig", recentBlockhash>>

\* How an awaited connection.confirmTransaction resolves: the RPC answers a
\* SignatureResult whose err is null ("confirmed") or the error the executed
\* transaction failed with ("failed"); the promise rejects on a timeout or
\* an expired block height.
ConfirmResolutions == {"confirmed", "failed"}

\* A serialization that embeds a newer block reference in each attempt.
SerializedRebuilt(recentBlockhash, n) == <<recentBlockhash + n - 1>>

\* transaction.serialize() in attempt n of the retried closure: the bytes of
\* the transaction as it was signed before the loop, whatever the attempt.
Serialized(recentBlockhash, n) == <<recentBlockhash>>

\* A catch that lets the underlying error through unwrapped.
TransactionFailedUnwrapped(e) == e

\* catch (error) { throw new WalletError(`Transaction failed: ${error.message}`,
\*                                       WalletError.CODES.TRANSACTION_FAILED) }
TransactionFailed(e) ==
  MkError("TRANSACTION_FAILED", "Transaction failed: " \o e.msg, 0)

\* Signing code that never throws.
SignThrowsNothing(signers) == ""

\* The synchronous code of lines 578-584 that follows the blockhash fetch:
\* the message it throws with, or "" when it runs through.
SignThrows(signers) ==
  CASE signers = "empty" -> "Cannot read properties of undefined (reading 'publicKey')"
    [] signers = "rejects" -> "sign failed"
    [] OTHER -> ""

\* The caller passes as `signers` an empty array, a signer whose partialSign
\* throws, or a working signer.
StartSendAndConfirm ==
  /\ pc = "idle"
  /\ \E s \in {"empty", "rejects", "ok"} : args' = [signers |-> s]
  /\ op' = "sendAndConfirmTransaction"
  /\ pc' = "sc_fetch"
  /\ local' = [latestBlockhash |-> 0, recentBlockhash |-> 0,
               signed |-> FALSE, sig |-> <<>>]
  /\ UNCHANGED <<net, sleeps, attempt, lastError, result>>

\* await connection.getLatestBlockhash() resolves; then lines 578-587 up to
\* the first await inside retryAsync.
ScFetchResolves ==
  /\ op = "sendAndConfirmTransaction" /\ pc = "sc_fetch"
  /\ net' = Append(net, NetEntry("getLatestBlockhash", <<>>, TRUE, NextBlockRef))
  /\ IF SignThrows(args.signers) # ""
       THEN /\ local' = [local EXCEPT !.latestBlockhash = NextBlockRef,
                                      !.recentBlockhash = NextBlockRef]
            /\ result' = Rejected(TransactionFailed(
                            MkError("", SignThrows(args.signers), 0)))
            /\ pc' = "done"
            /\ UNCHANGED <<attempt, lastError>>
       ELSE /\ local' = [local EXCEPT !.latestBlockhash = NextBlockRef,
                                      !.recentBlockhash = NextBlockRef,
                                      !.signed = TRUE]
            /\ RetryEnter
            /\ pc' = "sc_send"
            /\ UNCHANGED result
  /\ UNCHANGED <<op, args, sleeps>>

ScFetchRejects ==
  /\ op = "sendAndConfirmTransaction" /\ pc = "sc_fetch"
  /\ \E m \in RemoteErrMsgs :
       /\ net' = Append(net, NetEntry("getLatestBlockhash", <<>>, FALSE, m))
       /\ result' = Rejected(TransactionFailed(MkError("", m, Len(net) + 1)))
  /\ pc' = "done"
  /\ UNCHANGED <<op, args, sleeps, attempt, lastError, local>>

\* const sig = await connection.sendRawTransaction(transaction.serialize(), ...)
ScSendResolves ==
  /\ op = "sendAndConfirmTransaction" /\ pc = "sc_send"
  /\ LET bytes == Serialized(local.recentBlockhash, attempt)
     IN /\ net' = Append(net, NetEntry("sendRawTransaction", bytes,
                                      TRUE, Signature(bytes[1])))
        /\ local' = [local EXCEPT !.sig = Signature(bytes[1])]
  /\ pc' = "sc_confirm"
  /\ UNCHANGED <<op, args, sleeps, attempt, lastError, result>>

ScSendRejects ==
  /\ op = "sendAndConfirmTransaction" /\ pc = "sc_send"
  /\ \E m \in RemoteErrMsgs :
       /\ net' = Append(net, NetEntry("sendRawTransaction",
                                      Serialized(local.recentBlockhash, attempt),
                                      FALSE, m))
       /\ RetryCatch(MkError("", m, Len(net) + 1))
       /\ IF RetryExhausted
            THEN pc' = "done" /\ result' = Rejected(TransactionFailed(lastError'))
            ELSE pc' = "sc_sleep" /\ result' = result
  /\ UNCHANGED <<op, args, local>>

\* await connection.confirmTransaction({signature: sig, blockhash, lastValid-
\* BlockHeight}) resolves; its value is dropped and `return sig` runs.
ScConfirmResolves ==
  /\ op = "sendAndConfirmTransaction" /\ pc = "sc_confirm"
  /\ \E r \in ConfirmResolutions :
       net' = Append(net, NetEntry("confirmTransaction",
                                   <<local.sig, local.latestBlockhash>>, TRUE, r))
  /\ result' = Resolved(local.sig)
  /\ pc' = "done"
  /\ UNCHANGED <<attempt, lastError, sleeps>>
  /\ UNCHANGED <<op, args, local>>

ScConfirmRejects ==
  /\ op = "sendAndConfirmTransaction" /\ pc = "sc_confirm"
  /\ \E m \in RemoteErrMsgs :
       /\ net' = Append(net, NetEntry("confirmTransaction",
                                      <<local.sig, local.latestBlockhash>>, FALSE, m))
       /\ RetryCatch(MkError("", m, Len(net) + 1))
       /\ IF RetryExhausted
            THEN pc' = "done" /\ result' = Rejected(TransactionFailed(lastError'))
            ELSE pc' = "sc_sleep" /\ result' = result
  /\ UNCHANGED <<op, args, local>>

----------------------------------------------------------------------------
(* CompatibleConnection.sendAndConfirmCompatible,                          *)
(* src/src/utils/solana-compat.js 34-61: the same steps without a retry    *)
(* loop; the catch rethrows the error as it is.                            *)

StartCompat ==
  /\ pc = "idle"
  /\ \E s \in {"empty", "rejects", "ok"} : args' = [signers |-> s]
  /\ op' = "sendAndConfirmCompatible"
  /\ pc' = "cc_fetch"
  /\ local' = [latestBlockhash |-> 0, recentBlockhash |-> 0,
               signed |-> FALSE, sig |-> <<>>]
  /\ UNCHANGED <<net, sleeps, attempt, lastError, result>>

CompatFetchResolves ==
  /\ op = "sendAndConfirmCompatible" /\ pc = "cc_fetch"
  /\ net' = Append(net, NetEntry("getLatestBlockhash", <<>>, TRUE, NextBlockRef))
  /\ IF SignThrows(args.signers) # ""
       THEN /\ local' = [local EXCEPT !.latestBlockhash = NextBlockRef,
                                      !.recentBlockhash = NextBlockRef]
            /\ result' = Rejected(MkError("", SignThrows(args.signers), 0))
            /\ pc' = "done"
       ELSE /\ local' = [local EXCEPT !.latestBlockhash = NextBlockRef,
                                      !.recentBlockhash = NextBlockRef,
                                      !.signed = TRUE]
            /\ pc' = "cc_send"
            /\ UNCHANGED result
  /\ UNCHANGED <<op, args, sleeps, attempt, lastError>>

CompatFetchRejects ==
  /\ op = "sendAndConfirmCompatible" /\ pc = "cc_fetch"
  /\ \E m \in RemoteErrMsgs :
       /\ net' = Append(net, NetEntry("getLatestBlockhash", <<>>, FALSE, m))
       /\ result' = Rejected(MkError("", m, Len(net) + 1))
  /\ pc' = "done"
  /\ UNCHANGED <<op, args, sleeps, attempt, lastError, local>>

CompatSendResolves ==
  /\ op = "sendAndConfirmCompatible" /\ pc = "cc_send"
  /\ net' = Append(net, NetEntry("sendRawTransaction", <<local.recentBlockhash>>,
                                 TRUE, Signature(local.recentBlockhash)))
  /\ local' = [local EXCEPT !.sig = Signature(local.recentBlockhash)]
  /\ pc' = "cc_confirm"
  /\ UNCHANGED <<op, args, sleeps, attempt, lastError, result>>

CompatSendRejects ==
  /\ op = "sendAndConfirmCompatible" /\ pc = "cc_send"
  /\ \E m \in RemoteErrMsgs :
       /\ net' = Append(net, NetEntry("sendRawTransaction",
                                      <<local.recentBlockhash>>, FALSE, m))
       /\ result' = Rejected(MkError("", m, Len(net) + 1))
  /\ pc' = "done"
  /\ UNCHANGED <<op, args, sleeps, attempt, lastError, local>>

\* await this.confirmTransaction(signature); return signature
CompatConfirmResolves ==
  /\ op = "sendAndConfirmCompatible" /\ pc = "cc_confirm"
  /\ \E r \in ConfirmResolutions :
       net' = Append(net, NetEntry("confirmTransaction", <<local.sig>>, TRUE, r))
  /\ result' = Resolved(local.sig)
  /\ pc' = "done"
  /\ UNCHANGED <<op, args, sleeps, attempt, lastError, local>>

CompatConfirmRejects ==
  /\ op = "sendAndConfirmCompatible" /\ pc = "cc_confirm"
  /\ \E m \in RemoteErrMsgs :
       /\ net' = Append(net, NetEntry("confirmTransaction", <<local.sig>>, FALSE, m))
       /\ result' = Rejected(MkError("", m, Len(net) + 1))
  /\ pc' = "done"
  /\ UNCHANGED <<op, args, sleeps, attempt, lastError, local>>

----------------------------------------------------------------------------
(* What the domain operations share *)

\* LAMPORTS_PER_SOL of @solana/web3.js
LAMPORTS_PER_SOL == 1000000000

\* The `wallet` argument: null, an object without publicKey, a connected wallet.
WalletChoices == {"null", "nokey", "ok"}

\* if (!wallet || !wallet.publicKey)
WalletConnected(w) == w = "ok"

\* The messages a failing remote call of a domain operation rejects with.
OpErrMsgs == {"node busy", "insufficient funds"}

\* The rejections of the retried submitting calls (market.createPool,
\* pool.addLiquidity, pool.removeLiquidity) and of confirmTransaction.  The
\* rejection of a call that submits a transaction and waits for it can reach
\* the client after the chain applied the transaction: the wait timed out,
\* the transaction landed.
SubmitErrMsgs ==
  OpErrMsgs \cup {"Transaction was not confirmed in 30.00 seconds"}

\* getConstants() of utils.jsx builds its PublicKeys in a try whose catch
\* throws this error.  The constructor of @solana/web3.js throws on an id
\* that does not decode to 32 bytes, and METEORA_PROGRAM_ID decodes to 33;
\* a constructor that does not test the length returns the record.  Which
\* of the two the build links is drawn where getConstants() is called.
ConstantsError == MkError("", "Failed to initialize blockchain constants", 0)

\* new WalletError('Wallet not connected', WalletError.CODES.WALLET_NOT_CONNECTED)
\* (MeteoraError in meteoraService.js: same message, same code)
WalletNotConnected == MkError("WALLET_NOT_CONNECTED", "Wallet not connected", 0)

\* Evaluating wallet.publicKey on a null wallet.
NullWalletTypeError ==
  MkError("", "Cannot read properties of null (reading 'publicKey')", 0)

\* The catch block at the end of a domain operation: a new error with the
\* operation's own code and a prefixed message; the caught error's code is lost.
Wrapped(code, prefix, e) == MkError(code, prefix \o e.msg, 0)

----------------------------------------------------------------------------
(* createToken: src/src/utils.jsx 216-315 (impl = "utils") and             *)
(* src/meteoraService.js 39-102 (impl = "service"); the two run the same   *)
(* steps and differ in the base-unit conversion and the returned record.   *)

\* const requiredBalance = 0.1; balance < requiredBalance * LAMPORTS_PER_SOL
\* (the double product 0.1 * 1e9 is exactly 100000000)
RequiredCreateBalance == LAMPORTS_PER_SOL \div 10

\* The comparison with one lamport of slack.
BalanceTooLowLenient(balance, required) == balance + 1 < required

\* The comparison that also refuses a balance equal to the requirement.
BalanceTooLowInclusive(balance, required) == balance <= required

\* if (balance < required)
BalanceTooLow(balance, required) == balance < required

\* tokenData.decimals || 9
DecimalsOrDefault(d) == IF d = 0 THEN 9 ELSE d

\* BigInt(tokenData.supply) * BigInt(10 ** (tokenData.decimals || 9)), and
\* BigInt(Math.floor(tokenData.supply * Math.pow(10, tokenData.decimals || 9))):
\* equal for the integer supplies drawn here, whose products stay below 2^53.
BaseUnits(supply, d) == supply * 10^DecimalsOrDefault(d)

\* catch (error) { throw new WalletError(`Failed to create token: ${error.message}`,
\*                                       WalletError.CODES.TOKEN_CREATION_FAILED) }
TokenCreationFailed(e) == Wrapped("TOKEN_CREATION_FAILED", "Failed to create token: ", e)

InsufficientBalance ==
  MkError("INSUFFICIENT_BALANCE", "Insufficient balance. Required: 0.1 SOL", 0)

\* Math.floor(supply * Math.pow(10, decimals || 9)) for the supply "n.5"
\* the form can hold: n * 10^D + 5 * 10^(D - 1), D never being 0.
BaseUnitsOfFraction(n, d) ==
  n * 10^DecimalsOrDefault(d) + 5 * 10^(DecimalsOrDefault(d) - 1)

\* BigInt(tokenData.supply) of utils.jsx throws on the string of a
\* fraction; the floating-point product of meteoraService.js does not.
SupplyConversionThrows(impl, fraction) == impl = "utils" /\ fraction

SupplyConversionError(n) ==
  MkError("", "Cannot convert " \o ToString(n) \o ".5 to a BigInt", 0)

\* The awaited chain steps after the balance check, in program order.
CtSteps == <<"createMint", "getOrCreateAssociatedTokenAccount",
             "createMetadataAccount", "mintTo">>

StartCreateToken ==
  /\ pc = "idle"
  /\ op' = "createToken"
  /\ \E w \in WalletChoices, i \in {"utils", "service"},
        d \in {0, 2, 9}, n \in {1, 2}, f \in BOOLEAN :
       /\ f => n = 1
       /\ args' = [wallet |-> w, impl |-> i, decimals |-> d, supply |-> n,
                   fraction |-> f]
       /\ IF ~WalletConnected(w)
            THEN pc' = "done" /\ result' = Rejected(WalletNotConnected)
            ELSE \* const constants = getConstants(), in utils.jsx only
                 \E thrown \in (IF i = "utils" THEN BOOLEAN ELSE {FALSE}) :
                   IF thrown
                     THEN /\ pc' = "done"
                          /\ result' = Rejected(TokenCreationFailed(ConstantsError))
                     ELSE pc' = "ct_balance" /\ result' = result
  /\ local' = [balance |-> -1, step |-> 0, supplyBigInt |-> 0]
  /\ UNCHANGED <<net, sleeps, attempt, lastError>>

\* const balance = await connection.getBalance(wallet.publicKey), and the check
CtBalanceResolves ==
  /\ op = "createToken" /\ pc = "ct_balance"
  /\ \E b \in {RequiredCreateBalance - 1, RequiredCreateBalance, RequiredCreateBalance + 1} :
       /\ net' = Append(net, NetEntry("getBalance", <<>>, TRUE, b))
       /\ local' = [local EXCEPT !.balance = b, !.step = 1]
       /\ IF BalanceTooLow(b, RequiredCreateBalance)
            THEN /\ result' = Rejected(TokenCreationFailed(InsufficientBalance))
                 /\ pc' = "done"
            ELSE /\ result' = result
                 /\ pc' = "ct_step"
  /\ UNCHANGED <<op, args, sleeps, attempt, lastError>>

CtBalanceRejects ==
  /\ op = "createToken" /\ pc = "ct_balance"
  /\ \E m \in OpErrMsgs :
       /\ net' = Append(net, NetEntry("getBalance", <<>>, FALSE, m))
       /\ result' = Rejected(TokenCreationFailed(MkError("", m, Len(net) + 1)))
  /\ pc' = "done"
  /\ UNCHANGED <<op, args, sleeps, attempt, lastError, local>>

\* One of createMint, getOrCreateAssociatedTokenAccount, the metadata call,
\* mintTo resolves.  The base-unit amount is computed after the metadata
\* call (where the conversion can throw) and passed to mintTo; after mintTo
\* the function returns its record: {mint, ..., initialSupply, decimals} in
\* utils.jsx, {mint, tokenAccount, supply} without decimals in
\* meteoraService.js.
CtStepResolves ==
  /\ op = "createToken" /\ pc = "ct_step"
  /\ LET name == CtSteps[local.step]
         units == IF args.fraction
                    THEN BaseUnitsOfFraction(args.supply, args.decimals)
                    ELSE BaseUnits(args.supply, args.decimals)
     IN /\ net' = Append(net, NetEntry(name,
                              IF name = "mintTo" THEN <<local.supplyBigInt>>
                              ELSE IF name = "createMint"
                                     THEN <<DecimalsOrDefault(args.decimals)>>
                                     ELSE <<>>,
                              TRUE, name))
        /\ IF name = "mintTo"
             THEN /\ result' = Resolved(
                                  IF args.impl = "utils"
                                    THEN [mint |-> "mint",
                                          supply |-> local.supplyBigInt,
                                          decimals |-> DecimalsOrDefault(args.decimals)]
                                    ELSE [mint |-> "mint",
                                          supply |-> local.supplyBigInt])
                  /\ pc' = "done"
                  /\ local' = local
           ELSE IF name = "createMetadataAccount"
                   /\ SupplyConversionThrows(args.impl, args.fraction)
             THEN /\ result' = Rejected(TokenCreationFailed(
                                  SupplyConversionError(args.supply)))
                  /\ pc' = "done"
                  /\ local' = local
             ELSE /\ result' = result
                  /\ pc' = "ct_step"
                  /\ local' = [local EXCEPT
                                 !.step = local.step + 1,
                                 !.supplyBigInt =
                                    IF name = "createMetadataAccount"
                                      THEN units ELSE local.supplyBigInt]
  /\ UNCHANGED <<op, args, sleeps, attempt, lastError>>

\* One of the four steps rejects; it had been called with the arguments the
\* resolving call gets.
CtStepRejects ==
  /\ op = "createToken" /\ pc = "ct_step"
  /\ \E m \in OpErrMsgs :
       /\ net' = Append(net, NetEntry(CtSteps[local.step],
                              IF CtSteps[local.step] = "mintTo"
                                THEN <<local.supplyBigInt>>
                              ELSE IF CtSteps[local.step] = "createMint"
                                THEN <<DecimalsOrDefault(args.decimals)>>
                                ELSE <<>>,
                              FALSE, m))
       /\ result' = Rejected(TokenCreationFailed(MkError("", m, Len(net) + 1)))
  /\ pc' = "done"
  /\ UNCHANGED <<op, args, sleeps, attempt, lastError, local>>

----------------------------------------------------------------------------
(* createMeteoraPool, src/src/utils.jsx 318-380 *)

\* if (!poolConfig.initialPrice || poolConfig.initialPrice <= 0)
InitialPriceInvalid(price) == price = 0 \/ price <= 0

PoolCreationFailed(e) == Wrapped("POOL_CREATION_FAILED", "Failed to create pool: ", e)

\* poolConfig.initialPrice is drawn in millionths of a SOL: a negative price,
\* 0 (also standing for a missing or NaN price, which the same test rejects)
\* and a positive price.
StartCreateMeteoraPool ==
  /\ pc = "idle"
  /\ op' = "createMeteoraPool"
  /\ \E w \in WalletChoices, price \in {-1, 0, 1} :
       /\ args' = [wallet |-> w, initialPrice |-> price]
       /\ IF ~WalletConnected(w)
            THEN pc' = "done" /\ result' = Rejected(WalletNotConnected)
            ELSE \* const constants = getConstants()
                 \E thrown \in BOOLEAN :
                   IF thrown
                     THEN /\ pc' = "done"
                          /\ result' = Rejected(PoolCreationFailed(ConstantsError))
                     ELSE pc' = "cp_load" /\ result' = result
  /\ local' = [pool |-> "", confirmation |-> ""]
  /\ UNCHANGED <<net, sleeps, attempt, lastError>>

\* const market = await KaminoMarket.load(...) resolves; then the price check
\* and the entry into retryAsync(() => market.createPool(poolParams), 3).
CpLoadResolves ==
  /\ op = "createMeteoraPool" /\ pc = "cp_load"
  /\ net' = Append(net, NetEntry("KaminoMarket.load", <<>>, TRUE, "market"))
  /\ IF InitialPriceInvalid(args.initialPrice)
       THEN /\ result' = Rejected(PoolCreationFailed(
                 MkError("", "Initial price must be greater than 0", 0)))
            /\ pc' = "done"
            /\ UNCHANGED <<attempt, lastError>>
       ELSE /\ result' = result
            /\ pc' = "cp_create"
            /\ RetryEnter
  /\ UNCHANGED <<op, args, sleeps, local>>

CpLoadRejects ==
  /\ op = "createMeteoraPool" /\ pc = "cp_load"
  /\ \E m \in OpErrMsgs :
       /\ net' = Append(net, NetEntry("KaminoMarket.load", <<>>, FALSE, m))
       /\ result' = Rejected(PoolCreationFailed(MkError("", m, Len(net) + 1)))
  /\ pc' = "done"
  /\ UNCHANGED <<op, args, sleeps, attempt, lastError, local>>

CpCreateResolves ==
  /\ op = "createMeteoraPool" /\ pc = "cp_create"
  /\ net' = Append(net, NetEntry("market.createPool", <<args.initialPrice>>,
                                 TRUE, <<"pool", Len(net) + 1>>))
  /\ local' = [local EXCEPT !.pool = <<"pool", Len(net) + 1>>]
  /\ pc' = "cp_confirm"
  /\ UNCHANGED <<attempt, lastError, sleeps>>
  /\ UNCHANGED <<op, args, result>>

CpCreateRejects ==
  /\ op = "createMeteoraPool" /\ pc = "cp_create"
  /\ \E m \in SubmitErrMsgs :
       /\ net' = Append(net, NetEntry("market.createPool", <<args.initialPrice>>,
                                      FALSE, m))
       /\ RetryCatch(MkError("", m, Len(net) + 1))
       /\ IF RetryExhausted
            THEN pc' = "done" /\ result' = Rejected(PoolCreationFailed(lastError'))
            ELSE pc' = "cp_create_sleep" /\ result' = result
  /\ UNCHANGED <<op, args, local>>

\* await connection.confirmTransaction(pool.createPoolTx, 'confirmed')
CpConfirmResolves ==
  /\ op = "createMeteoraPool" /\ pc = "cp_confirm"
  /\ \E r \in ConfirmResolutions :
       /\ net' = Append(net, NetEntry("confirmTransaction", <<local.pool>>, TRUE, r))
       /\ local' = [local EXCEPT !.confirmation = r]
  /\ result' = Resolved([poolAddress |-> local.pool,
                         initialPrice |-> args.initialPrice])
  /\ pc' = "done"
  /\ UNCHANGED <<op, args, sleeps, attempt, lastError>>

CpConfirmRejects ==
  /\ op = "createMeteoraPool" /\ pc = "cp_confirm"
  /\ \E m \in SubmitErrMsgs :
       /\ net' = Append(net, NetEntry("confirmTransaction", <<local.pool>>, FALSE, m))
       /\ result' = Rejected(PoolCreationFailed(MkError("", m, Len(net) + 1)))
  /\ pc' = "done"
  /\ UNCHANGED <<op, args, sleeps, attempt, lastError, local>>

----------------------------------------------------------------------------
(* Amounts as the callers pass them: a JavaScript number, or the string of *)
(* a form field holding a decimal numeral (page.jsx 254-258, 382-386).     *)

Num(n) == [type |-> "number", n |-> n]

Str(n) == [type |-> "string", n |-> n]

\* The string "n.5": a form field of step 0.000001 holding a fraction.
StrFraction(n) == [type |-> "fraction", n |-> n]

\* A field the form data does not hold (formData.lpTokenAmount, page.jsx 393).
Undefined == [type |-> "undefined", n |-> 0]

\* BigInt(x) throws on the string of a fraction (SyntaxError) and on
\* undefined (TypeError).
BigIntThrows(a) == a.type \in {"fraction", "undefined"}

\* The error BigInt(x) throws.
BigIntError(a) ==
  MkError("", "Cannot convert "
              \o (IF a.type = "undefined" THEN "undefined" ELSE ToString(a.n) \o ".5")
              \o " to a BigInt", 0)

\* BigInt(x) of an integer number or of a string holding an integer numeral
ToBigInt(a) == a.n

RECURSIVE DigitCount(_)
\* the length of the decimal numeral of n >= 0
DigitCount(n) == IF n < 10 THEN 1 ELSE 1 + DigitCount(n \div 10)

\* 0.01 * LAMPORTS_PER_SOL (the double product is exactly 10000000)
FeeBuffer == LAMPORTS_PER_SOL \div 100

\* const requiredSol = solAmount + 0.01 * LAMPORTS_PER_SOL, as the comparison
\* solBalance < requiredSol reads it: the sum for a number; for a string the
\* concatenation of the two numerals, converted back to a number.  For the
\* string "n.5" that number is n.51, and the least whole balance not below
\* it is n + 1.
RequiredSol(solAmount) ==
  CASE solAmount.type = "number" -> solAmount.n + FeeBuffer
    [] solAmount.type = "string" ->
         solAmount.n * 10^DigitCount(FeeBuffer) + FeeBuffer
    [] OTHER -> solAmount.n + 1

----------------------------------------------------------------------------
(* addPoolLiquidity, src/src/utils.jsx 383-450 *)

AddLiquidityFailed(e) == Wrapped("TRANSACTION_FAILED", "Failed to add liquidity: ", e)

StartAddPoolLiquidity ==
  /\ pc = "idle"
  /\ op' = "addPoolLiquidity"
  /\ \E w \in WalletChoices, t \in {Num(50), Str(50), StrFraction(50)},
        a \in {Num(1), Num(LAMPORTS_PER_SOL), Str(1), StrFraction(0)} :
       /\ args' = [wallet |-> w, tokenAmount |-> t, solAmount |-> a]
       /\ IF WalletConnected(w)
            THEN pc' = "al_load" /\ result' = result /\ RetryEnter
            ELSE /\ pc' = "done" /\ result' = Rejected(WalletNotConnected)
                 /\ UNCHANGED <<attempt, lastError>>
  /\ local' = [tokenBalance |-> -1, solBalance |-> -1, tx |-> <<>>,
               confirmation |-> ""]
  /\ UNCHANGED <<net, sleeps>>

\* retryAsync(() => KaminoPool.load(...), 3)
AlLoadResolves ==
  /\ op = "addPoolLiquidity" /\ pc = "al_load"
  /\ net' = Append(net, NetEntry("KaminoPool.load", <<>>, TRUE, "pool"))
  /\ pc' = "al_account"
  /\ UNCHANGED <<attempt, lastError, sleeps>>
  /\ UNCHANGED <<op, args, local, result>>

AlLoadRejects ==
  /\ op = "addPoolLiquidity" /\ pc = "al_load"
  /\ \E m \in OpErrMsgs :
       /\ net' = Append(net, NetEntry("KaminoPool.load", <<>>, FALSE, m))
       /\ RetryCatch(MkError("", m, Len(net) + 1))
       /\ IF RetryExhausted
            THEN pc' = "done" /\ result' = Rejected(AddLiquidityFailed(lastError'))
            ELSE pc' = "al_load_sleep" /\ result' = result
  /\ UNCHANGED <<op, args, local>>

\* await getOrCreateAssociatedTokenAccount(connection, wallet, tokenMintA, ...)
\* answers the owner's account when it exists ("found"); when it does not,
\* it sends the transaction that creates it, paid by the wallet, and answers
\* the new account ("created").
AlAccountResolves ==
  /\ op = "addPoolLiquidity" /\ pc = "al_account"
  /\ \E o \in {"found", "created"} :
       net' = Append(net, NetEntry("getOrCreateAssociatedTokenAccount", <<>>,
                                   TRUE, o))
  /\ pc' = "al_tokenBalance"
  /\ UNCHANGED <<op, args, sleeps, attempt, lastError, local, result>>

\* await connection.getTokenAccountBalance(...), and the token check
AlTokenBalanceResolves ==
  /\ op = "addPoolLiquidity" /\ pc = "al_tokenBalance"
  /\ \E b \in {49, 50, 100} :
       /\ net' = Append(net, NetEntry("getTokenAccountBalance", <<>>, TRUE, b))
       /\ local' = [local EXCEPT !.tokenBalance = b]
       /\ IF BigIntThrows(args.tokenAmount)
            THEN /\ result' = Rejected(AddLiquidityFailed(BigIntError(args.tokenAmount)))
                 /\ pc' = "done"
          ELSE IF BalanceTooLow(b, ToBigInt(args.tokenAmount))
            THEN /\ result' = Rejected(AddLiquidityFailed(
                                 MkError("", "Insufficient token balance", 0)))
                 /\ pc' = "done"
            ELSE /\ result' = result
                 /\ pc' = "al_solBalance"
  /\ UNCHANGED <<op, args, sleeps, attempt, lastError>>

\* await connection.getBalance(wallet.publicKey), the SOL check and the
\* entry into retryAsync(() => pool.addLiquidity(...), 3)
AlSolBalanceResolves ==
  /\ op = "addPoolLiquidity" /\ pc = "al_solBalance"
  /\ \E b \in UNION {{RequiredSol(a) - 1, RequiredSol(a)} :
                       a \in {Num(1), Num(LAMPORTS_PER_SOL), Str(1), StrFraction(0)}} :
       /\ net' = Append(net, NetEntry("getBalance", <<>>, TRUE, b))
       /\ local' = [local EXCEPT !.solBalance = b]
       /\ IF BalanceTooLow(b, RequiredSol(args.solAmount))
            THEN /\ result' = Rejected(AddLiquidityFailed(
                                 MkError("", "Insufficient SOL balance", 0)))
                 /\ pc' = "done"
                 /\ UNCHANGED <<attempt, lastError>>
            ELSE /\ result' = result
                 /\ pc' = "al_add"
                 /\ RetryEnter
  /\ UNCHANGED <<op, args, sleeps>>

\* One of the three awaits between the pool load and the submission rejects.
AlPrecheckRejects ==
  /\ op = "addPoolLiquidity"
  /\ pc \in {"al_account", "al_tokenBalance", "al_solBalance"}
  /\ \E m \in OpErrMsgs :
       /\ net' = Append(net, NetEntry(
                   CASE pc = "al_account" -> "getOrCreateAssociatedTokenAccount"
                     [] pc = "al_tokenBalance" -> "getTokenAccountBalance"
                     [] OTHER -> "getBalance",
                   <<>>, FALSE, m))
       /\ result' = Rejected(AddLiquidityFailed(MkError("", m, Len(net) + 1)))
  /\ pc' = "done"
  /\ UNCHANGED <<op, args, sleeps, attempt, lastError, local>>

\* The retried closure throws while it evaluates BigInt(solAmount), before
\* pool.addLiquidity is called; retryAsync catches it like any other error.
AlAddArgumentThrows ==
  /\ op = "addPoolLiquidity" /\ pc = "al_add"
  /\ BigIntThrows(args.solAmount)
  /\ RetryCatch(BigIntError(args.solAmount))
  /\ IF RetryExhausted
       THEN pc' = "done" /\ result' = Rejected(AddLiquidityFailed(lastError'))
       ELSE pc' = "al_add_sleep" /\ result' = result
  /\ UNCHANGED <<op, args, net, local>>

\* pool.addLiquidity(wallet.publicKey, BigInt(tokenAmount), BigInt(solAmount), ...)
AlAddResolves ==
  /\ op = "addPoolLiquidity" /\ pc = "al_add"
  /\ ~BigIntThrows(args.solAmount)
  /\ net' = Append(net, NetEntry("pool.addLiquidity",
                                 <<ToBigInt(args.tokenAmount), ToBigInt(args.solAmount)>>,
                                 TRUE, <<"tx", Len(net) + 1>>))
  /\ local' = [local EXCEPT !.tx = <<"tx", Len(net) + 1>>]
  /\ pc' = "al_confirm"
  /\ UNCHANGED <<attempt, lastError, sleeps>>
  /\ UNCHANGED <<op, args, result>>

AlAddRejects ==
  /\ op = "addPoolLiquidity" /\ pc = "al_add"
  /\ ~BigIntThrows(args.solAmount)
  /\ \E m \in SubmitErrMsgs :
       /\ net' = Append(net, NetEntry("pool.addLiquidity",
                                      <<ToBigInt(args.tokenAmount), ToBigInt(args.solAmount)>>,
                                      FALSE, m))
       /\ RetryCatch(MkError("", m, Len(net) + 1))
       /\ IF RetryExhausted
            THEN pc' = "done" /\ result' = Rejected(AddLiquidityFailed(lastError'))
            ELSE pc' = "al_add_sleep" /\ result' = result
  /\ UNCHANGED <<op, args, local>>

\* await connection.confirmTransaction(tx, 'confirmed'); return {success: true, ...}
AlConfirmResolves ==
  /\ op = "addPoolLiquidity" /\ pc = "al_confirm"
  /\ \E r \in ConfirmResolutions :
       /\ net' = Append(net, NetEntry("confirmTransaction", <<local.tx>>, TRUE, r))
       /\ local' = [local EXCEPT !.confirmation = r]
  /\ result' = Resolved([success |-> TRUE, transaction |-> local.tx,
                         tokenAmount |-> args.tokenAmount.n,
                         solAmount |-> args.solAmount.n])
  /\ pc' = "done"
  /\ UNCHANGED <<op, args, sleeps, attempt, lastError>>

AlConfirmRejects ==
  /\ op = "addPoolLiquidity" /\ pc = "al_confirm"
  /\ \E m \in SubmitErrMsgs :
       /\ net' = Append(net, NetEntry("confirmTransaction", <<local.tx>>, FALSE, m))
       /\ result' = Rejected(AddLiquidityFailed(MkError("", m, Len(net) + 1)))
  /\ pc' = "done"
  /\ UNCHANGED <<op, args, sleeps, attempt, lastError, local>>

----------------------------------------------------------------------------
(* removePoolLiquidity, src/src/utils.jsx 452-505 *)

RemoveLiquidityFailed(e) == Wrapped("TRANSACTION_FAILED", "Failed to remove liquidity: ", e)

StartRemovePoolLiquidity ==
  /\ pc = "idle"
  /\ op' = "removePoolLiquidity"
  /\ \E w \in WalletChoices, a \in {Num(50), Str(50), StrFraction(50), Undefined} :
       /\ args' = [wallet |-> w, lpTokenAmount |-> a]
       /\ IF WalletConnected(w)
            THEN pc' = "rl_load" /\ result' = result
            ELSE pc' = "done" /\ result' = Rejected(WalletNotConnected)
  /\ local' = [lpBalance |-> -1, tx |-> <<>>, confirmation |-> ""]
  /\ UNCHANGED <<net, sleeps, attempt, lastError>>

\* KaminoPool.load and getOrCreateAssociatedTokenAccount, one after the other
RlLookupResolves ==
  /\ op = "removePoolLiquidity" /\ pc \in {"rl_load", "rl_account"}
  /\ \E o \in {"found", "created"} :
       /\ (pc = "rl_load") => o = "found"
       /\ net' = Append(net, NetEntry(IF pc = "rl_load" THEN "KaminoPool.load"
                                      ELSE "getOrCreateAssociatedTokenAccount",
                                      <<>>, TRUE, o))
  /\ pc' = IF pc = "rl_load" THEN "rl_account" ELSE "rl_lpBalance"
  /\ UNCHANGED <<op, args, sleeps, attempt, lastError, local, result>>

\* await connection.getTokenAccountBalance(lpTokenAccount.address), the check
\* and the entry into retryAsync(() => pool.removeLiquidity(...), 3)
RlLpBalanceResolves ==
  /\ op = "removePoolLiquidity" /\ pc = "rl_lpBalance"
  /\ \E b \in {49, 50, 100} :
       /\ net' = Append(net, NetEntry("getTokenAccountBalance", <<>>, TRUE, b))
       /\ local' = [local EXCEPT !.lpBalance = b]
       /\ IF BigIntThrows(args.lpTokenAmount)
            THEN /\ result' = Rejected(RemoveLiquidityFailed(
                                 BigIntError(args.lpTokenAmount)))
                 /\ pc' = "done"
                 /\ UNCHANGED <<attempt, lastError>>
          ELSE IF BalanceTooLow(b, ToBigInt(args.lpTokenAmount))
            THEN /\ result' = Rejected(RemoveLiquidityFailed(
                                 MkError("", "Insufficient LP token balance", 0)))
                 /\ pc' = "done"
                 /\ UNCHANGED <<attempt, lastError>>
            ELSE /\ result' = result
                 /\ pc' = "rl_remove"
                 /\ RetryEnter
  /\ UNCHANGED <<op, args, sleeps>>

RlPrecheckRejects ==
  /\ op = "removePoolLiquidity"
  /\ pc \in {"rl_load", "rl_account", "rl_lpBalance"}
  /\ \E m \in OpErrMsgs :
       /\ net' = Append(net, NetEntry(
                   CASE pc = "rl_load" -> "KaminoPool.load"
                     [] pc = "rl_account" -> "getOrCreateAssociatedTokenAccount"
                     [] OTHER -> "getTokenAccountBalance",
                   <<>>, FALSE, m))
       /\ result' = Rejected(RemoveLiquidityFailed(MkError("", m, Len(net) + 1)))
  /\ pc' = "done"
  /\ UNCHANGED <<op, args, sleeps, attempt, lastError, local>>

RlRemoveResolves ==
  /\ op = "removePoolLiquidity" /\ pc = "rl_remove"
  /\ net' = Append(net, NetEntry("pool.removeLiquidity",
                                 <<ToBigInt(args.lpTokenAmount)>>,
                                 TRUE, <<"tx", Len(net) + 1>>))
  /\ local' = [local EXCEPT !.tx = <<"tx", Len(net) + 1>>]
  /\ pc' = "rl_confirm"
  /\ UNCHANGED <<attempt, lastError, sleeps>>
  /\ UNCHANGED <<op, args, result>>

RlRemoveRejects ==
  /\ op = "removePoolLiquidity" /\ pc = "rl_remove"
  /\ \E m \in SubmitErrMsgs :
       /\ net' = Append(net, NetEntry("pool.removeLiquidity",
                                      <<ToBigInt(args.lpTokenAmount)>>, FALSE, m))
       /\ RetryCatch(MkError("", m, Len(net) + 1))
       /\ IF RetryExhausted
            THEN pc' = "done" /\ result' = Rejected(RemoveLiquidityFailed(lastError'))
            ELSE pc' = "rl_remove_sleep" /\ result' = result
  /\ UNCHANGED <<op, args, local>>

RlConfirmResolves ==
  /\ op = "removePoolLiquidity" /\ pc = "rl_confirm"
  /\ \E r \in ConfirmResolutions :
       /\ net' = Append(net, NetEntry("confirmTransaction", <<local.tx>>, TRUE, r))
       /\ local' = [local EXCEPT !.confirmation = r]
  /\ result' = Resolved([success |-> TRUE, transaction |-> local.tx,
                         lpTokenAmount |-> args.lpTokenAmount.n])
  /\ pc' = "done"
  /\ UNCHANGED <<op, args, sleeps, attempt, lastError>>

RlConfirmRejects ==
  /\ op = "removePoolLiquidity" /\ pc = "rl_confirm"
  /\ \E m \in SubmitErrMsgs :
       /\ net' = Append(net, NetEntry("confirmTransaction", <<local.tx>>, FALSE, m))
       /\ result' = Rejected(RemoveLiquidityFailed(MkError("", m, Len(net) + 1)))
  /\ pc' = "done"
  /\ UNCHANGED <<op, args, sleeps, attempt, lastError, local>>

----------------------------------------------------------------------------
(* meteoraService.js: addLiquidity 182-197, removeLiquidity 199-213,       *)
(* swap 216-232, claimRewards 258-269.  The four have one shape: getPool,  *)
(* then one pool call whose arguments read wallet.publicKey, inside a try  *)
(* whose catch wraps every error in the function's own code.  None of them *)
(* tests the wallet or reads a balance.                                    *)

SvcOps == {"svc.addLiquidity", "svc.removeLiquidity", "svc.swap", "svc.claimRewards"}

\* The pool method each function calls.
SvcPoolCall(o) ==
  CASE o = "svc.addLiquidity" -> "pool.addLiquidity"
    [] o = "svc.removeLiquidity" -> "pool.removeLiquidity"
    [] o = "svc.swap" -> "pool.swap"
    [] OTHER -> "pool.claimRewards"

\* throw new MeteoraError(`Failed to ...: ${error.message}`, '..._FAILED')
SvcFailed(o, e) ==
  CASE o = "svc.addLiquidity" ->
         Wrapped("ADD_LIQUIDITY_FAILED", "Failed to add liquidity: ", e)
    [] o = "svc.removeLiquidity" ->
         Wrapped("REMOVE_LIQUIDITY_FAILED", "Failed to remove liquidity: ", e)
    [] o = "svc.swap" ->
         Wrapped("SWAP_FAILED", "Failed to execute swap: ", e)
    [] OTHER ->
         Wrapped("CLAIM_REWARDS_FAILED", "Failed to claim rewards: ", e)

\* getPool's catch: new MeteoraError(`Failed to load pool: ...`, 'POOL_LOAD_FAILED')
PoolLoadFailed(e) == Wrapped("POOL_LOAD_FAILED", "Failed to load pool: ", e)

\* validateMint's catch: new MeteoraError('Invalid mint address', 'INVALID_MINT')

\* Evaluating the pool call's arguments: wallet.publicKey throws on a null
\* wallet, then (swap only) validateMint(inputMint) throws on a bad address.
\* NoError when the arguments evaluate.
SvcArgumentError(o, a) ==
  IF a.wallet = "null" THEN NullWalletTypeError
  ELSE IF o = "svc.swap" /\ ~a.mintValid THEN MkError("INVALID_MINT", "Invalid mint address", 0)
  ELSE NoError

\* f: the funds the signer holds of the asset the call spends, against the
\* amount asked for; the functions never read it, the chain does.
StartSvc ==
  /\ pc = "idle"
  /\ \E o \in SvcOps, w \in WalletChoices, v \in BOOLEAN, f \in {"short", "enough"} :
       /\ (o # "svc.swap") => v
       /\ (o = "svc.claimRewards") => f = "enough"
       /\ op' = o
       /\ args' = [wallet |-> w, mintValid |-> v, funds |-> f]
  /\ pc' = "svc_load"
  /\ local' = [none |-> TRUE]
  /\ UNCHANGED <<net, sleeps, attempt, lastError, result>>

\* const pool = await getPool(poolAddress) resolves; then the arguments of
\* the pool call are evaluated.
SvcLoadResolves ==
  /\ op \in SvcOps /\ pc = "svc_load"
  /\ net' = Append(net, NetEntry("KaminoPool.load", <<>>, TRUE, "pool"))
  /\ IF SvcArgumentError(op, args) # NoError
       THEN /\ result' = Rejected(SvcFailed(op, SvcArgumentError(op, args)))
            /\ pc' = "done"
       ELSE /\ result' = result
            /\ pc' = "svc_call"
  /\ UNCHANGED <<op, args, sleeps, attempt, lastError, local>>

SvcLoadRejects ==
  /\ op \in SvcOps /\ pc = "svc_load"
  /\ \E m \in OpErrMsgs :
       /\ net' = Append(net, NetEntry("KaminoPool.load", <<>>, FALSE, m))
       /\ result' = Rejected(SvcFailed(op, PoolLoadFailed(MkError("", m, Len(net) + 1))))
  /\ pc' = "done"
  /\ UNCHANGED <<op, args, sleeps, attempt, lastError, local>>

\* const tx = await pool.<call>(wallet.publicKey, ...); return tx.signature
SvcCallResolves ==
  /\ op \in SvcOps /\ pc = "svc_call"
  /\ args.funds = "enough"
  /\ net' = Append(net, NetEntry(SvcPoolCall(op), <<args.wallet, args.funds>>,
                                 TRUE, <<"tx", Len(net) + 1>>))
  /\ result' = Resolved(<<"tx", Len(net) + 1>>)
  /\ pc' = "done"
  /\ UNCHANGED <<op, args, sleeps, attempt, lastError, local>>

SvcCallRejects ==
  /\ op \in SvcOps /\ pc = "svc_call"
  /\ \E m \in OpErrMsgs :
       /\ (args.funds = "short") => m = "insufficient funds"
       /\ net' = Append(net, NetEntry(SvcPoolCall(op), <<args.wallet, args.funds>>,
                                      FALSE, m))
       /\ result' = Rejected(SvcFailed(op, MkError("", m, Len(net) + 1)))
  /\ pc' = "done"
  /\ UNCHANGED <<op, args, sleeps, attempt, lastError, local>>

----------------------------------------------------------------------------
(* createPool, src/meteoraService.js 105-140: no wallet test and no test   *)
(* of initialPrice, which the function never reads.                        *)

StartSvcCreatePool ==
  /\ pc = "idle"
  /\ op' = "svc.createPool"
  /\ \E w \in WalletChoices, price \in {-1, 0, 1},
        v \in BOOLEAN, l \in BOOLEAN :
       args' = [wallet |-> w, initialPrice |-> price, mintValid |-> v,
                withLiquidity |-> l]
  /\ pc' = "sp_load"
  /\ local' = [none |-> TRUE]
  /\ UNCHANGED <<net, sleeps, attempt, lastError, result>>

\* KaminoMarket.load, market.createPool and (when both initial amounts are
\* positive) pool.addLiquidity, one after the other; validateMint runs
\* after the load, wallet.publicKey is read before addLiquidity.
SpStepResolves ==
  /\ op = "svc.createPool" /\ pc \in {"sp_load", "sp_create", "sp_add"}
  /\ net' = Append(net, NetEntry(
               CASE pc = "sp_load" -> "KaminoMarket.load"
                 [] pc = "sp_create" -> "market.createPool"
                 [] OTHER -> "pool.addLiquidity",
               <<>>, TRUE, pc))
  /\ CASE pc = "sp_load" /\ ~args.mintValid ->
            pc' = "done" /\ result' = Rejected(PoolCreationFailed(
                 MkError("INVALID_MINT", "Invalid mint address", 0)))
       [] pc = "sp_load" /\ args.mintValid ->
            pc' = "sp_create" /\ result' = result
       [] pc = "sp_create" /\ ~args.withLiquidity ->
            pc' = "done" /\ result' = Resolved("pool")
       [] pc = "sp_create" /\ args.withLiquidity /\ args.wallet = "null" ->
            pc' = "done" /\ result' = Rejected(PoolCreationFailed(NullWalletTypeError))
       [] pc = "sp_create" /\ args.withLiquidity /\ args.wallet # "null" ->
            pc' = "sp_add" /\ result' = result
       [] OTHER ->
            pc' = "done" /\ result' = Resolved("pool")
  /\ UNCHANGED <<op, args, sleeps, attempt, lastError, local>>

SpStepRejects ==
  /\ op = "svc.createPool" /\ pc \in {"sp_load", "sp_create", "sp_add"}
  /\ \E m \in OpErrMsgs :
       /\ net' = Append(net, NetEntry(
                    CASE pc = "sp_load" -> "KaminoMarket.load"
                      [] pc = "sp_create" -> "market.createPool"
                      [] OTHER -> "pool.addLiquidity",
                    <<>>, FALSE, m))
       /\ result' = Rejected(PoolCreationFailed(MkError("", m, Len(net) + 1)))
  /\ pc' = "done"
  /\ UNCHANGED <<op, args, sleeps, attempt, lastError, local>>

----------------------------------------------------------------------------
(* getMarketStats, src/meteoraService.js 272-307 *)

\* A PublicKey, and its toString(): the base58 text of the key.
PublicKey(k) == [key |-> k]

PublicKeyToString(pk) == <<"base58", pk.key>>

\* The pool object of a listed pool and the state its getPoolState() answers.
PoolOf(p) == [address |-> PublicKey(p)]

PoolStateOf(p) ==
  [tokenMintA |-> PublicKey(10 + p), tokenMintB |-> PublicKey(0),
   currentPrice |-> p, volume24h |-> 10 * p, tvl |-> 100 * p,
   fee |-> 30, rewardRate |-> p]

\* The object the map callback returns for a pool whose state was read.
StatsEntry(pool, state) ==
  [address |-> PublicKeyToString(pool.address),
   tokenMintA |-> PublicKeyToString(state.tokenMintA),
   tokenMintB |-> PublicKeyToString(state.tokenMintB),
   price |-> state.currentPrice,
   volume24h |-> state.volume24h,
   tvl |-> state.tvl,
   fee |-> state.fee,
   rewardRate |-> state.rewardRate]

\* catch { return null; } and a callback that has not settled yet
Null == [null |-> TRUE]

Unsettled == [unsettled |-> TRUE]

\* A filter that keeps every element.
FilterNothing(stats) == stats

\* poolStats.filter(stats => stats !== null)
FilterNotNull(stats) == SelectSeq(stats, LAMBDA x : x # Null)

\* A join that lists the results in the order the callbacks settled.
JoinedInCompletionOrder(settled, completed) ==
  [k \in 1..Len(completed) |-> settled[completed[k]]]

\* await Promise.all(promises): the results in the order of the promises
Joined(settled, completed) == settled

\* pools.map(async (pool) => ...) runs every callback up to its first await:
\* pool.getPoolState() has been called on each pool when map returns.
FanOut(pools) == Len(pools)

StartGetMarketStats ==
  /\ pc = "idle"
  /\ op' = "svc.getMarketStats"
  /\ args' = [none |-> TRUE]
  /\ pc' = "ms_market"
  /\ local' = [pools |-> <<>>, started |-> 0, settled |-> <<>>, completed |-> <<>>]
  /\ UNCHANGED <<net, sleeps, attempt, lastError, result>>

\* const market = await KaminoMarket.load(connection, METEORA_PROGRAM_ID)
MsMarketResolves ==
  /\ op = "svc.getMarketStats" /\ pc = "ms_market"
  /\ net' = Append(net, NetEntry("KaminoMarket.load", <<>>, TRUE, "market"))
  /\ pc' = "ms_list"
  /\ UNCHANGED <<op, args, sleeps, attempt, lastError, local, result>>

\* const pools = await market.getAllPools(); then pools.map(...) starts the
\* reads and Promise.all waits for them (an empty list is joined at once).
MsListResolves ==
  /\ op = "svc.getMarketStats" /\ pc = "ms_list"
  /\ \E ps \in {qs \in UNION {[1..n -> 1..MaxPools] : n \in 0..MaxPools} :
                    \A i, j \in DOMAIN qs : i # j => qs[i] # qs[j]} :
       /\ net' = Append(net, NetEntry("market.getAllPools", <<>>, TRUE, ps))
       /\ local' = [pools |-> ps, started |-> FanOut(ps),
                    settled |-> [i \in 1..Len(ps) |-> Unsettled],
                    completed |-> <<>>]
       /\ IF Len(ps) = 0
            THEN pc' = "done" /\ result' = Resolved(FilterNotNull(Joined(<<>>, <<>>)))
            ELSE pc' = "ms_reads" /\ result' = result
  /\ UNCHANGED <<op, args, sleeps, attempt, lastError>>

\* KaminoMarket.load or market.getAllPools rejects: the outer catch
MsSetupRejects ==
  /\ op = "svc.getMarketStats" /\ pc \in {"ms_market", "ms_list"}
  /\ \E m \in OpErrMsgs :
       /\ net' = Append(net, NetEntry(IF pc = "ms_market" THEN "KaminoMarket.load"
                                      ELSE "market.getAllPools", <<>>, FALSE, m))
       /\ result' = Rejected(Wrapped("MARKET_STATS_FAILED",
                                    "Failed to get market stats: ",
                                    MkError("", m, Len(net) + 1)))
  /\ pc' = "done"
  /\ UNCHANGED <<op, args, sleeps, attempt, lastError, local>>

\* The callback of pool i settles with v; when it is the last one,
\* Promise.all resolves and the function returns the filtered list.
MsSettle(i, v) ==
  /\ local' = [local EXCEPT !.settled[i] = v, !.completed = Append(@, i)]
  /\ IF \A j \in 1..Len(local.pools) : j = i \/ local.settled[j] # Unsettled
       THEN /\ pc' = "done"
            /\ result' = Resolved(FilterNotNull(
                             Joined(local'.settled, local'.completed)))
       ELSE /\ pc' = "ms_reads"
            /\ result' = result

\* const state = await pool.getPoolState() resolves in one of the callbacks
MsReadResolves ==
  /\ op = "svc.getMarketStats" /\ pc = "ms_reads"
  /\ \E i \in 1..local.started :
       /\ local.settled[i] = Unsettled
       /\ net' = Append(net, NetEntry("pool.getPoolState", <<local.pools[i]>>,
                                      TRUE, PoolStateOf(local.pools[i])))
       /\ MsSettle(i, StatsEntry(PoolOf(local.pools[i]), PoolStateOf(local.pools[i])))
  /\ UNCHANGED <<op, args, sleeps, attempt, lastError>>

\* ... or rejects: the callback's own catch returns null
MsReadRejects ==
  /\ op = "svc.getMarketStats" /\ pc = "ms_reads"
  /\ \E i \in 1..local.started, m \in OpErrMsgs :
       /\ local.settled[i] = Unsettled
       /\ net' = Append(net, NetEntry("pool.getPoolState", <<local.pools[i]>>,
                                      FALSE, m))
       /\ MsSettle(i, Null)
  /\ UNCHANGED <<op, args, sleeps, attempt, lastError>>

----------------------------------------------------------------------------
(* getUserPosition 235-256 and getTradeHistory 310-328 of                  *)
(* src/meteoraService.js: getPool, then one read of the pool, inside a try *)
(* whose catch wraps every error in the function's own code.               *)

ReaderOps == {"svc.getUserPosition", "svc.getTradeHistory"}

\* What pool.getUserPosition answers: nothing (null or undefined), a
\* position whose amounts are all zero, a position with holdings.
PositionOf(amount) ==
  [owner |-> "user", lpTokenBalance |-> amount, tokenAAmount |-> amount,
   tokenBAmount |-> 2 * amount, unclaimedRewards |-> amount]

\* The test of a reader that also treats an empty position as none.
NoPositionOrEmpty(position) ==
  position \in {Null, Undefined} \/ position.lpTokenBalance = 0

\* if (!position)
NoPosition(position) == position \in {Null, Undefined}

\* The object getUserPosition returns for a position.
PositionRecord(position) ==
  [lpTokenBalance |-> position.lpTokenBalance,
   tokenAAmount |-> position.tokenAAmount,
   tokenBAmount |-> position.tokenBAmount,
   unclaimedRewards |-> position.unclaimedRewards]

\* A trade as the pool reports it, and the lists pool.getTradeHistory
\* answers: any order, equal timestamps included.
TradeOf(ts) ==
  [timestamp |-> ts, price |-> 10 * ts, amount |-> ts,
   side |-> IF ts % 2 = 0 THEN "buy" ELSE "sell", fee |-> 1,
   signature |-> <<"sig", ts>>]

\* trade => ({timestamp, price, amount, side, fee})
TradeRecord(trade) ==
  [timestamp |-> trade.timestamp, price |-> trade.price,
   amount |-> trade.amount, side |-> trade.side, fee |-> trade.fee]

\* trades.map(...): the records in the order the pool gave the trades
MapTrades(trades) == [k \in 1..Len(trades) |-> TradeRecord(trades[k])]

ReaderCall(o) ==
  IF o = "svc.getUserPosition" THEN "pool.getUserPosition" ELSE "pool.getTradeHistory"

ReaderFailed(o, e) ==
  IF o = "svc.getUserPosition"
    THEN Wrapped("GET_POSITION_FAILED", "Failed to get user position: ", e)
    ELSE Wrapped("TRADE_HISTORY_FAILED", "Failed to get trade history: ", e)

\* What the function returns for the value v the pool read resolved with.
ReaderReturn(o, v) ==
  IF o = "svc.getUserPosition"
    THEN IF NoPosition(v) THEN Null ELSE PositionRecord(v)
    ELSE MapTrades(v)

StartReader ==
  /\ pc = "idle"
  /\ \E o \in ReaderOps, w \in WalletChoices :
       /\ (o = "svc.getTradeHistory") => w = "ok"
       /\ op' = o
       /\ args' = [wallet |-> w]
  /\ pc' = "rd_load"
  /\ local' = [answer |-> Unsettled]
  /\ UNCHANGED <<net, sleeps, attempt, lastError, result>>

\* const pool = await getPool(poolAddress); getUserPosition then reads
\* wallet.publicKey for the argument of the pool call.
RdLoadResolves ==
  /\ op \in ReaderOps /\ pc = "rd_load"
  /\ net' = Append(net, NetEntry("KaminoPool.load", <<>>, TRUE, "pool"))
  /\ IF op = "svc.getUserPosition" /\ args.wallet = "null"
       THEN /\ result' = Rejected(ReaderFailed(op, NullWalletTypeError))
            /\ pc' = "done"
       ELSE /\ result' = result
            /\ pc' = "rd_call"
  /\ UNCHANGED <<op, args, sleeps, attempt, lastError, local>>

RdLoadRejects ==
  /\ op \in ReaderOps /\ pc = "rd_load"
  /\ \E m \in OpErrMsgs :
       /\ net' = Append(net, NetEntry("KaminoPool.load", <<>>, FALSE, m))
       /\ result' = Rejected(ReaderFailed(op, PoolLoadFailed(MkError("", m, Len(net) + 1))))
  /\ pc' = "done"
  /\ UNCHANGED <<op, args, sleeps, attempt, lastError, local>>

\* await pool.getUserPosition(wallet.publicKey) / pool.getTradeHistory(startTime)
RdCallResolves ==
  /\ op \in ReaderOps /\ pc = "rd_call"
  /\ \E v \in IF op = "svc.getUserPosition"
               THEN {Null, Undefined, PositionOf(0), PositionOf(5)}
               ELSE UNION {[1..n -> {TradeOf(ts) : ts \in 1..MaxTrades}] :
                             n \in 0..MaxTrades} :
       /\ net' = Append(net, NetEntry(ReaderCall(op), <<>>, TRUE, v))
       /\ local' = [answer |-> v]
       /\ result' = Resolved(ReaderReturn(op, v))
  /\ pc' = "done"
  /\ UNCHANGED <<op, args, sleeps, attempt, lastError>>

RdCallRejects ==
  /\ op \in ReaderOps /\ pc = "rd_call"
  /\ \E m \in OpErrMsgs :
       /\ net' = Append(net, NetEntry(ReaderCall(op), <<>>, FALSE, m))
       /\ result' = Rejected(ReaderFailed(op, MkError("", m, Len(net) + 1)))
  /\ pc' = "done"
  /\ UNCHANGED <<op, args, sleeps, attempt, lastError, local>>

----------------------------------------------------------------------------
(* WalletProvider, src/src/utils.jsx 71-204.  The session is the component *)
(* state (wallet, connected, publicKey, loading); its callbacks are called *)
(* one after the other, up to MaxSessionCalls times.  The session lives in *)
(* local, with a snapshot taken when a callback is entered.                *)

\* The key solana.connect() answers.
WalletKey == PublicKey(7)

\* The rejections of the extension's calls.
WalletErrMsgs == {"User rejected the request."}

WalletNotFound ==
  MkError("WALLET_NOT_FOUND", "Phantom wallet is not installed", 0)

\* The callbacks that sign: signTransaction, signAllTransactions.
SignCalls == {"signTransaction", "signAllTransactions"}

SignFailed(call) ==
  MkError("TRANSACTION_FAILED",
          IF call = "signTransaction" THEN "Failed to sign transaction"
          ELSE "Failed to sign transactions", 0)

\* if (!wallet)
WalletMissing(w) == w = Null

\* setWallet(solana); setConnected(true); setPublicKey(response.publicKey)
SessionConnected(session, key) ==
  [session EXCEPT !.wallet = ([isPhantom |-> TRUE]), !.connected = TRUE, !.publicKey = key]

\* A reset that forgets the public key only.
SessionClearedKeyOnly(session) ==
  [session EXCEPT !.publicKey = Null]

\* setWallet(null); setConnected(false); setPublicKey(null)
SessionCleared(session) ==
  [session EXCEPT !.wallet = Null, !.connected = FALSE, !.publicKey = Null]

\* A disconnect whose failure still clears the session.
AfterDisconnectFailedCleared(session) == SessionCleared(session)

\* catch (error) { console.error(...); toast.error(...) } of disconnectWallet
AfterDisconnectFailed(session) == session

\* The session with the snapshot and the name of the callback now entered.
Entering(session, call) ==
  [session EXCEPT !.call = call, !.calls = session.calls + 1,
                  !.before = [wallet |-> session.wallet,
                              connected |-> session.connected,
                              publicKey |-> session.publicKey,
                              net |-> Len(net)]]

\* The component mounts: the state hooks are initialised and the effect
\* runs initializeWallet up to its first await.  window.solana is absent (or
\* not Phantom), Phantom not yet connected, or Phantom already connected to
\* the site.
StartWalletProvider ==
  /\ pc = "idle"
  /\ op' = "WalletProvider"
  /\ \E x \in {"missing", "phantom", "phantomConnected"} :
       /\ args' = [extension |-> x]
       /\ pc' = IF x = "phantomConnected" THEN "wp_auto" ELSE "wp_ready"
  /\ local' = [wallet |-> Null, connected |-> FALSE, publicKey |-> Null,
               loading |-> FALSE, call |-> "initializeWallet", calls |-> 0,
               before |-> [wallet |-> Null, connected |-> FALSE,
                           publicKey |-> Null, net |-> 0]]
  /\ UNCHANGED <<net, sleeps, attempt, lastError, result>>

\* await solana.connect({ onlyIfTrusted: true }) of the mount effect
WpAutoResolves ==
  /\ op = "WalletProvider" /\ pc = "wp_auto"
  /\ net' = Append(net, NetEntry("solana.connect", <<"onlyIfTrusted">>, TRUE, WalletKey))
  /\ local' = SessionConnected(local, WalletKey)
  /\ pc' = "wp_ready"
  /\ UNCHANGED <<op, args, sleeps, attempt, lastError, result>>

WpAutoRejects ==
  /\ op = "WalletProvider" /\ pc = "wp_auto"
  /\ \E m \in WalletErrMsgs :
       net' = Append(net, NetEntry("solana.connect", <<"onlyIfTrusted">>, FALSE, m))
  /\ pc' = "wp_ready"
  /\ UNCHANGED <<op, args, sleeps, attempt, lastError, local, result>>

\* connectWallet up to its first await; without Phantom it throws, rethrows
\* from the catch and resets loading in the finally, all in one go.
WpConnectStart ==
  /\ op = "WalletProvider" /\ pc = "wp_ready"
  /\ local.calls < MaxSessionCalls
  /\ IF args.extension = "missing"
       THEN /\ local' = [Entering(local, "connectWallet") EXCEPT !.loading = FALSE]
            /\ result' = Rejected(WalletNotFound)
            /\ pc' = "wp_ready"
       ELSE /\ local' = [Entering(local, "connectWallet") EXCEPT !.loading = TRUE]
            /\ result' = Pending
            /\ pc' = "wp_connect"
  /\ UNCHANGED <<op, args, net, sleeps, attempt, lastError>>

\* const response = await solana.connect() resolves
WpConnectResolves ==
  /\ op = "WalletProvider" /\ pc = "wp_connect"
  /\ net' = Append(net, NetEntry("solana.connect", <<>>, TRUE, WalletKey))
  /\ local' = [SessionConnected(local, WalletKey) EXCEPT !.loading = FALSE]
  /\ result' = Resolved(TRUE)
  /\ pc' = "wp_ready"
  /\ UNCHANGED <<op, args, sleeps, attempt, lastError>>

\* ... or rejects: catch rethrows the error as it is, finally resets loading
WpConnectRejects ==
  /\ op = "WalletProvider" /\ pc = "wp_connect"
  /\ \E m \in WalletErrMsgs :
       /\ net' = Append(net, NetEntry("solana.connect", <<>>, FALSE, m))
       /\ result' = Rejected(MkError("", m, Len(net) + 1))
  /\ local' = [local EXCEPT !.loading = FALSE]
  /\ pc' = "wp_ready"
  /\ UNCHANGED <<op, args, sleeps, attempt, lastError>>

\* disconnectWallet up to its first await; with no wallet set there is none
\* and the session is cleared at once.
WpDisconnectStart ==
  /\ op = "WalletProvider" /\ pc = "wp_ready"
  /\ local.calls < MaxSessionCalls
  /\ IF WalletMissing(local.wallet)
       THEN /\ local' = SessionCleared(Entering(local, "disconnectWallet"))
            /\ result' = Resolved("undefined")
            /\ pc' = "wp_ready"
       ELSE /\ local' = Entering(local, "disconnectWallet")
            /\ result' = Pending
            /\ pc' = "wp_disconnect"
  /\ UNCHANGED <<op, args, net, sleeps, attempt, lastError>>

\* await wallet.disconnect() resolves
WpDisconnectResolves ==
  /\ op = "WalletProvider" /\ pc = "wp_disconnect"
  /\ net' = Append(net, NetEntry("wallet.disconnect", <<>>, TRUE, "undefined"))
  /\ local' = SessionCleared(local)
  /\ result' = Resolved("undefined")
  /\ pc' = "wp_ready"
  /\ UNCHANGED <<op, args, sleeps, attempt, lastError>>

\* ... or rejects: the catch reports it and the callback returns normally
WpDisconnectRejects ==
  /\ op = "WalletProvider" /\ pc = "wp_disconnect"
  /\ \E m \in WalletErrMsgs :
       net' = Append(net, NetEntry("wallet.disconnect", <<>>, FALSE, m))
  /\ local' = AfterDisconnectFailed(local)
  /\ result' = Resolved("undefined")
  /\ pc' = "wp_ready"
  /\ UNCHANGED <<op, args, sleeps, attempt, lastError>>

\* signTransaction / signAllTransactions up to the first await
WpSignStart ==
  /\ op = "WalletProvider" /\ pc = "wp_ready"
  /\ local.calls < MaxSessionCalls
  /\ \E c \in SignCalls :
       /\ local' = Entering(local, c)
       /\ IF WalletMissing(local.wallet)
            THEN result' = Rejected(WalletNotConnected) /\ pc' = "wp_ready"
            ELSE result' = Pending /\ pc' = "wp_sign"
  /\ UNCHANGED <<op, args, net, sleeps, attempt, lastError>>

\* return await wallet.signTransaction(transaction)
WpSignResolves ==
  /\ op = "WalletProvider" /\ pc = "wp_sign"
  /\ net' = Append(net, NetEntry("wallet." \o local.call, <<local.wallet>>, TRUE, "signed"))
  /\ result' = Resolved("signed")
  /\ pc' = "wp_ready"
  /\ UNCHANGED <<op, args, sleeps, attempt, lastError, local>>

WpSignRejects ==
  /\ op = "WalletProvider" /\ pc = "wp_sign"
  /\ \E m \in WalletErrMsgs :
       net' = Append(net, NetEntry("wallet." \o local.call, <<local.wallet>>, FALSE, m))
  /\ result' = Rejected(SignFailed(local.call))
  /\ pc' = "wp_ready"
  /\ UNCHANGED <<op, args, sleeps, attempt, lastError, local>>

----------------------------------------------------------------------------
(* validateTokenData (src/src/utils.jsx)                                   *)
(* The fields of the token form: name and symbol are strings, modelled as  *)
(* sequences of one-character strings; supply, decimals and initialPrice   *)
(* are JavaScript values as the form holds them (components.jsx 203-237).  *)

\* The empty string '' of an untouched field.
EmptyString == [type |-> "empty", n |-> 0]

\* A non-empty string that is no numeral, "abc".
Text == [type |-> "text", n |-> 0]

\* The number NaN, parseInt('') of a cleared decimals field.
NaN == [type |-> "nan", n |-> 0]

\* !!v: a number other than 0 and NaN, or a non-empty string.
Truthy(v) ==
  CASE v.type = "number" -> v.n # 0
    [] v.type \in {"string", "fraction", "text"} -> TRUE
    [] OTHER -> FALSE

\* isNaN(v) = Number.isNaN(Number(v)); Number('') is 0.
IsNaN(v) == v.type \in {"text", "undefined", "nan"}

\* Twice the numeric value of a value that is not NaN: "n.5" is n + 0.5 for
\* n >= 0 and n - 0.5 for n < 0.
Twice(v) ==
  CASE v.type \in {"number", "string"} -> 2 * v.n
    [] v.type = "fraction" -> IF v.n >= 0 THEN 2 * v.n + 1 ELSE 2 * v.n - 1
    [] OTHER -> 0

\* v <= k for an integer k; every comparison with NaN is false.
AtMost(v, k) == ~IsNaN(v) /\ Twice(v) <= 2 * k

RECURSIVE Trim(_)
\* String.prototype.trim: the string without its leading and trailing blanks
Trim(s) ==
  IF s # <<>> /\ Head(s) = " " THEN Trim(Tail(s))
  ELSE IF s # <<>> /\ s[Len(s)] = " " THEN Trim(SubSeq(s, 1, Len(s) - 1))
  ELSE s

\* else if (tokenData.symbol.length > 10)
MAX_SYMBOL_LENGTH == 10

MIN_DECIMALS == 0

MAX_DECIMALS == 9

\* The order in which validateTokenData assigns the keys of errors.
ErrorKeys == <<"name", "symbol", "supply", "decimals", "initialPrice">>

\* The condition under which validateTokenData assigns errors[key].
HasError(tokenData, key) ==
  CASE key = "name" -> Trim(tokenData.name) = <<>>
    [] key = "symbol" ->
         Trim(tokenData.symbol) = <<>> \/ Len(tokenData.symbol) > MAX_SYMBOL_LENGTH
    [] key = "supply" ->
         ~Truthy(tokenData.supply) \/ IsNaN(tokenData.supply)
           \/ AtMost(tokenData.supply, 0)
    [] key = "decimals" ->
         ~Truthy(tokenData.decimals) \/ IsNaN(tokenData.decimals)
           \/ (~IsNaN(tokenData.decimals)
                 /\ Twice(tokenData.decimals) < 2 * MIN_DECIMALS)
           \/ (~IsNaN(tokenData.decimals)
                 /\ Twice(tokenData.decimals) > 2 * MAX_DECIMALS)
    [] key = "initialPrice" ->
         Truthy(tokenData.initialPrice)
           /\ (IsNaN(tokenData.initialPrice) \/ AtMost(tokenData.initialPrice, 0))

\* The message validateTokenData assigns to errors[key].
ErrorMessage(tokenData, key) ==
  CASE key = "name" -> "Name is required"
    [] key = "symbol" ->
         IF Trim(tokenData.symbol) = <<>>
           THEN "Symbol is required"
           ELSE "Symbol must be 10 characters or less"
    [] key = "supply" -> "Supply must be a positive number"
    [] key = "decimals" -> "Decimals must be between 0 and 9"
    [] key = "initialPrice" -> "Initial price must be a positive number"

\* validateTokenData(tokenData): the errors object and
\* isValid: Object.keys(errors).length === 0
validateTokenData(tokenData) ==
  LET keys == {ErrorKeys[i] : i \in {j \in 1..Len(ErrorKeys) :
                                       HasError(tokenData, ErrorKeys[j])}}
      errors == [key \in keys |-> ErrorMessage(tokenData, key)]
  IN [isValid |-> Cardinality(DOMAIN errors) = 0, errors |-> errors]

TokenDataChoices ==
  [name : {<<>>, <<" ", " ">>, <<" ", "T", "o", "k", " ">>},
   symbol : {<<>>, <<" ">>}
            \cup {[i \in 1..k |-> "S"] :
                    k \in {1, MAX_SYMBOL_LENGTH, MAX_SYMBOL_LENGTH + 1}},
   supply : {EmptyString, Text, Str(0), Str(1), Num(1), Num(-1), StrFraction(1)},
   decimals : {Num(MIN_DECIMALS - 1), Num(MIN_DECIMALS), Num(2),
               Num(MAX_DECIMALS), Num(MAX_DECIMALS + 1), NaN},
   initialPrice : {EmptyString, Text, Str(0), Str(1), Num(0), StrFraction(0)}]

\* A call of validateTokenData; the function is synchronous.
StartValidateTokenData ==
  /\ pc = "idle"
  /\ op' = "validateTokenData"
  /\ \E tokenData \in TokenDataChoices :
       /\ args' = [tokenData |-> tokenData]
       /\ result' = Resolved(validateTokenData(tokenData))
  /\ pc' = "done"
  /\ local' = [none |-> TRUE]
  /\ UNCHANGED <<net, sleeps, attempt, lastError>>

----------------------------------------------------------------------------
(* The create-token page, CreateToken of src/src/page.jsx, with the two    *)
(* forms it renders (src/src/components.jsx).  The page is mounted once    *)
(* and its callbacks are then called one after the other: local holds the  *)
(* page's state (creating, step, tokenData), what useWallet answers         *)
(* (connected), the creation form's errors, the toasts shown and the       *)
(* navigations asked for, the callback running or last run (call) with     *)
(* its argument (formData) and the wallet its closure holds (wallet: TRUE  *)
(* for an object with its publicKey, FALSE for null or an object that      *)
(* lost it), and what the page was when that callback was entered          *)
(* (before).  createToken,                                                 *)
(* createMeteoraPool and addPoolLiquidity are awaited calls with outcomes  *)
(* the three functions can have on the data they are handed.               *)

\* A handler that calls createToken whatever the validation said.
FormAcceptedAlways(validation) == TRUE

\* if (!validation.isValid) { ...; return; }
FormAccepted(validation) == validation.isValid

\* parseFloat(formData.initialPrice)
ParseFloat(v) ==
  CASE v.type = "string" -> Num(v.n)
    [] v.type \in {"number", "fraction"} -> v
    [] OTHER -> NaN

\* The forms submitted to the page: a valid one, one whose empty price
\* createMeteoraPool rejects, one whose fractional supply createToken cannot
\* convert, and one validateTokenData rejects (decimals 0, blank symbol).
PageFormChoices ==
  {t \in TokenDataChoices :
     /\ t.name = <<" ", "T", "o", "k", " ">>
     /\ \/ t.symbol = <<"S">> /\ t.decimals = Num(MAX_DECIMALS)
             /\ <<t.supply, t.initialPrice>> \in
                  {<<Str(1), Str(1)>>, <<Str(1), EmptyString>>,
                   <<StrFraction(1), Str(1)>>}
        \/ t.symbol = <<" ">> /\ t.decimals = Num(MIN_DECIMALS)
             /\ t.supply = Str(1) /\ t.initialPrice = Str(1)}

\* The component mounts: useState(false), useState('create'),
\* useState(null), useState({}) of the form, and the first run of the
\* effect that sends a visitor without a wallet away.
StartCreateTokenPage ==
  /\ pc = "idle"
  /\ op' = "CreateToken"
  /\ \E connected \in BOOLEAN :
       /\ args' = [connected |-> connected]
       /\ local' = [creating |-> FALSE, step |-> "create", tokenData |-> Null,
                    connected |-> connected, walletChanges |-> 0,
                    wallet |-> connected,
                    errors |-> <<>>,
                    toasts |-> IF connected THEN <<>>
                               ELSE <<"Please connect your wallet first">>,
                    navs |-> IF connected THEN <<>> ELSE <<"/">>,
                    call |-> "mount", formData |-> Null, calls |-> 0,
                    before |-> [net |-> 0, step |-> "create"]]
  /\ pc' = "page_ready"
  /\ UNCHANGED <<net, sleeps, attempt, lastError, result>>

\* The wallet connects or disconnects while the page is mounted, between
\* two callbacks or while one awaits: useWallet answers the new state and
\* the effect (deps [connected, navigate]) runs again.  A callback that is
\* waiting keeps the wallet of the render that created it.
WalletChanges ==
  /\ op = "CreateToken" /\ pc \in {"page_ready", "hc_token", "hc_pool", "ha_add"}
  /\ local.walletChanges < MaxWalletChanges
  /\ local' = IF local.connected
                THEN [local EXCEPT
                        !.connected = FALSE, !.walletChanges = @ + 1,
                        !.toasts = Append(@, "Please connect your wallet first"),
                        !.navs = Append(@, "/")]
                ELSE [local EXCEPT !.connected = TRUE, !.walletChanges = @ + 1]
  /\ UNCHANGED <<op, pc, args, net, sleeps, attempt, lastError, result>>

\* The page as a callback finds it when it is called; the callback's closure
\* holds the wallet of the latest render.
PageEntering(call, data) ==
  [local EXCEPT !.call = call, !.formData = data, !.calls = @ + 1,
                !.wallet = local.connected,
                !.before = [net |-> Len(net), step |-> local.step]]

\* handleCreateToken up to its first await: setCreating(true), the
\* validation, and on an invalid form the toasts (the values of
\* validation.errors in the order of assignment), the return and the finally.
HandleCreateTokenEnter(formData, page) ==
  LET validation == validateTokenData(formData)
      keys == SelectSeq(ErrorKeys, LAMBDA k : k \in DOMAIN validation.errors)
  IN IF ~FormAccepted(validation)
       THEN /\ local' = [page EXCEPT
                           !.creating = FALSE,
                           !.toasts = @ \o [i \in 1..Len(keys) |->
                                              validation.errors[keys[i]]]]
            /\ result' = Resolved(Undefined)
            /\ pc' = "page_ready"
       ELSE /\ local' = [page EXCEPT !.creating = TRUE]
            /\ result' = Pending
            /\ pc' = "hc_token"

\* The page's handler called with a form's data.
StartHandleCreateToken ==
  /\ op = "CreateToken" /\ pc = "page_ready" /\ local.calls < MaxPageCalls
  /\ \E formData \in PageFormChoices :
       HandleCreateTokenEnter(formData,
                              PageEntering("handleCreateToken", formData))
  /\ UNCHANGED <<op, args, net, sleeps, attempt, lastError>>

\* The creation form, shown at step 'create', is submitted: validateForm,
\* then await onSubmit(formData).
StartHandleSubmit ==
  /\ op = "CreateToken" /\ pc = "page_ready" /\ local.calls < MaxPageCalls
  /\ local.step = "create"
  /\ \E formData \in PageFormChoices :
       LET validation == validateTokenData(formData)
           page == PageEntering("handleSubmit", formData)
       IN IF ~local.connected
            THEN /\ local' = [page EXCEPT
                                !.toasts = Append(@, "Please connect your wallet first")]
                 /\ result' = Resolved(Undefined)
                 /\ pc' = "page_ready"
          ELSE IF ~validation.isValid
            THEN /\ local' = [page EXCEPT !.errors = validation.errors]
                 /\ result' = Resolved(Undefined)
                 /\ pc' = "page_ready"
            ELSE HandleCreateTokenEnter(formData,
                   [page EXCEPT !.errors = validation.errors])
  /\ UNCHANGED <<op, args, net, sleeps, attempt, lastError>>

\* const token = await createToken(wallet, formData) resolves, which
\* createToken of utils.jsx can do for a connected wallet and a supply BigInt
\* converts; the handler calls createMeteoraPool.
HcCreateTokenResolves ==
  /\ op = "CreateToken" /\ pc = "hc_token"
  /\ local.wallet
  /\ ~SupplyConversionThrows("utils", local.formData.supply.type = "fraction")
  /\ net' = Append(net, NetEntry("createToken", <<local.formData>>, TRUE, "mint"))
  /\ pc' = "hc_pool"
  \* createMeteoraPool receives the wallet object createToken received; if
  \* the wallet disconnected meanwhile, the extension decides whether the
  \* object still holds its publicKey.
  /\ \E keyed \in (IF local.connected THEN {TRUE} ELSE BOOLEAN) :
       local' = [local EXCEPT !.wallet = keyed]
  /\ UNCHANGED <<op, args, sleeps, attempt, lastError, result>>

\* createToken rejects, with an error it can raise on this wallet and form:
\* no wallet; else, wrapped by its catch, the error of getConstants(), the
\* rejection of one of its remote calls, the failed balance check, or (after
\* the metadata step) the supply BigInt cannot convert.  Then catch (toast.error(error.message)), finally.
HcCreateTokenRejects ==
  /\ op = "CreateToken" /\ pc = "hc_token"
  /\ \E e \in IF ~local.wallet
                THEN {WalletNotConnected}
                ELSE {TokenCreationFailed(MkError("", m, 0)) : m \in OpErrMsgs}
                     \cup {TokenCreationFailed(ConstantsError),
                           TokenCreationFailed(InsufficientBalance)}
                     \cup (IF SupplyConversionThrows(
                                "utils", local.formData.supply.type = "fraction")
                             THEN {TokenCreationFailed(
                                     SupplyConversionError(local.formData.supply.n))}
                             ELSE {}) :
       /\ net' = Append(net, NetEntry("createToken", <<local.formData>>, FALSE, e.msg))
       /\ local' = [local EXCEPT !.creating = FALSE,
                                 !.toasts = Append(@, e.msg)]
  /\ result' = Resolved(Undefined)
  /\ pc' = "page_ready"
  /\ UNCHANGED <<op, args, sleeps, attempt, lastError>>

\* const pool = await createMeteoraPool(...) resolves, which it can do for a
\* price that passes its test (!initialPrice || initialPrice <= 0):
\* setTokenData, toast.success, setStep('liquidity'), finally.  The page now
\* renders the liquidity form in place of the creation form, whose state
\* (errors) is gone.
HcCreatePoolResolves ==
  /\ op = "CreateToken" /\ pc = "hc_pool"
  /\ local.wallet
  /\ LET price == ParseFloat(local.formData.initialPrice)
     IN /\ ~(~Truthy(price) \/ AtMost(price, 0))
        /\ net' = Append(net, NetEntry("createMeteoraPool", <<"mint", price>>,
                                       TRUE, "pool"))
  /\ local' = [local EXCEPT
                 !.tokenData = [mint |-> "mint", pool_address |-> "pool",
                                initial_price |-> local.formData.initialPrice],
                 !.toasts = Append(@, "Token created successfully!"),
                 !.step = "liquidity",
                 !.errors = <<>>,
                 !.creating = FALSE]
  /\ result' = Resolved(Undefined)
  /\ pc' = "page_ready"
  /\ UNCHANGED <<op, args, sleeps, attempt, lastError>>

\* createMeteoraPool rejects, with an error it can raise on this wallet and
\* price: a wallet without publicKey; else, wrapped by its catch, the error
\* of getConstants(), the rejection of one of its remote calls, or (after
\* the market was loaded) the failed price test.  Then catch
\* (toast.error(error.message)), finally.
HcCreatePoolRejects ==
  /\ op = "CreateToken" /\ pc = "hc_pool"
  /\ LET price == ParseFloat(local.formData.initialPrice)
     IN \E e \in (IF ~local.wallet
                    THEN {WalletNotConnected}
                  ELSE IF ~Truthy(price) \/ AtMost(price, 0)
                    THEN {PoolCreationFailed(MkError("", m, 0)) : m \in OpErrMsgs}
                         \cup {PoolCreationFailed(ConstantsError),
                               PoolCreationFailed(MkError(
                                  "", "Initial price must be greater than 0", 0))}
                    ELSE {PoolCreationFailed(MkError("", m, 0)) :
                            m \in SubmitErrMsgs}
                         \cup {PoolCreationFailed(ConstantsError)}) :
          /\ net' = Append(net, NetEntry("createMeteoraPool", <<"mint", price>>,
                                         FALSE, e.msg))
          /\ local' = [local EXCEPT !.creating = FALSE,
                                    !.toasts = Append(@, e.msg)]
  /\ result' = Resolved(Undefined)
  /\ pc' = "page_ready"
  /\ UNCHANGED <<op, args, sleeps, attempt, lastError>>

\* handleAddLiquidity(liquidityData) up to its first await: without a pool
\* address the toast and the return; else setCreating(true) and the call of
\* addPoolLiquidity with the two amounts as the form holds them (strings).
StartHandleAddLiquidity ==
  /\ op = "CreateToken" /\ pc = "page_ready" /\ local.calls < MaxPageCalls
  /\ \E tokenAmount \in {Str(50), StrFraction(50)} :
       LET page == PageEntering("handleAddLiquidity",
                                [tokenAmount |-> tokenAmount, solAmount |-> Str(1)])
       IN IF local.tokenData = Null
            THEN /\ local' = [page EXCEPT
                                !.toasts = Append(@, "Pool address not found")]
                 /\ result' = Resolved(Undefined)
                 /\ pc' = "page_ready"
            ELSE /\ local' = [page EXCEPT !.creating = TRUE]
                 /\ result' = Pending
                 /\ pc' = "ha_add"
  /\ UNCHANGED <<op, args, net, sleeps, attempt, lastError>>

\* await addPoolLiquidity(...) resolves, which it can do for amounts BigInt
\* converts: toast.success, navigate(`/token/${tokenData.mint}`), finally.
HaAddResolves ==
  /\ op = "CreateToken" /\ pc = "ha_add"
  /\ local.wallet
  /\ ~BigIntThrows(local.formData.tokenAmount)
  /\ ~BigIntThrows(local.formData.solAmount)
  /\ net' = Append(net, NetEntry("addPoolLiquidity",
                                 <<local.tokenData.pool_address,
                                   local.formData.tokenAmount,
                                   local.formData.solAmount>>, TRUE, "success"))
  /\ local' = [local EXCEPT
                 !.toasts = Append(@, "Liquidity added successfully!"),
                 !.navs = Append(@, "/token/" \o local.tokenData.mint),
                 !.creating = FALSE]
  /\ result' = Resolved(Undefined)
  /\ pc' = "page_ready"
  /\ UNCHANGED <<op, args, sleeps, attempt, lastError>>

\* addPoolLiquidity rejects, with an error it can raise on these amounts:
\* no wallet; else, wrapped by its catch, the rejection of one of its remote
\* calls and, for a tokenAmount BigInt cannot convert, the conversion error
\* of the token check; for one it converts, the failed token check, the
\* failed SOL check, the rejection of the submission or of its confirmation.
\* Then catch (toast.error(error.message)), finally.
HaAddRejects ==
  /\ op = "CreateToken" /\ pc = "ha_add"
  /\ \E e \in IF ~local.wallet
                THEN {WalletNotConnected}
              ELSE IF BigIntThrows(local.formData.tokenAmount)
                THEN {AddLiquidityFailed(MkError("", m, 0)) : m \in OpErrMsgs}
                     \cup {AddLiquidityFailed(BigIntError(local.formData.tokenAmount))}
                ELSE {AddLiquidityFailed(MkError("", m, 0)) : m \in SubmitErrMsgs}
                     \cup {AddLiquidityFailed(MkError("", "Insufficient token balance", 0)),
                           AddLiquidityFailed(MkError("", "Insufficient SOL balance", 0))} :
       /\ net' = Append(net, NetEntry("addPoolLiquidity",
                                      <<local.tokenData.pool_address,
                                        local.formData.tokenAmount,
                                        local.formData.solAmount>>, FALSE, e.msg))
       /\ local' = [local EXCEPT !.creating = FALSE,
                                 !.toasts = Append(@, e.msg)]
  /\ result' = Resolved(Undefined)
  /\ pc' = "page_ready"
  /\ UNCHANGED <<op, args, sleeps, attempt, lastError>>

\* onCancel of the liquidity form, shown at step 'liquidity':
\* () => setStep('create')
OnCancel ==
  /\ op = "CreateToken" /\ pc = "page_ready" /\ local.calls < MaxPageCalls
  /\ local.step = "liquidity"
  /\ local' = [PageEntering("onCancel", Null) EXCEPT !.step = "create"]
  /\ result' = Resolved(Undefined)
  /\ UNCHANGED <<op, pc, args, net, sleeps, attempt, lastError>>

----------------------------------------------------------------------------
Init ==
  /\ op = "none"
  /\ pc = "idle"
  /\ args = [none |-> TRUE]
  /\ net = <<>>
  /\ sleeps = <<>>
  /\ attempt = 0
  /\ lastError = NoError
  /\ local = [none |-> TRUE]
  /\ result = Pending

Next ==
  \/ StartRetryAsync
  \/ RetryFnResolves
  \/ RetryFnRejects
  \/ RetrySleepFires
  \/ StartSendAndConfirm
  \/ ScFetchResolves
  \/ ScFetchRejects
  \/ ScSendResolves
  \/ ScSendRejects
  \/ ScConfirmResolves
  \/ ScConfirmRejects
  \/ StartCompat
  \/ CompatFetchResolves
  \/ CompatFetchRejects
  \/ CompatSendResolves
  \/ CompatSendRejects
  \/ CompatConfirmResolves
  \/ CompatConfirmRejects
  \/ StartCreateToken
  \/ CtBalanceResolves
  \/ CtBalanceRejects
  \/ CtStepResolves
  \/ CtStepRejects
  \/ StartCreateMeteoraPool
  \/ CpLoadResolves
  \/ CpLoadRejects
  \/ CpCreateResolves
  \/ CpCreateRejects
  \/ CpConfirmResolves
  \/ CpConfirmRejects
  \/ StartAddPoolLiquidity
  \/ AlLoadResolves
  \/ AlLoadRejects
  \/ AlAccountResolves
  \/ AlTokenBalanceResolves
  \/ AlSolBalanceResolves
  \/ AlPrecheckRejects
  \/ AlAddArgumentThrows
  \/ AlAddResolves
  \/ AlAddRejects
  \/ AlConfirmResolves
  \/ AlConfirmRejects
  \/ StartRemovePoolLiquidity
  \/ RlLookupResolves
  \/ RlLpBalanceResolves
  \/ RlPrecheckRejects
  \/ RlRemoveResolves
  \/ RlRemoveRejects
  \/ RlConfirmResolves
  \/ RlConfirmRejects
  \/ StartSvc
  \/ SvcLoadResolves
  \/ SvcLoadRejects
  \/ SvcCallResolves
  \/ SvcCallRejects
  \/ StartSvcCreatePool
  \/ SpStepResolves
  \/ SpStepRejects
  \/ StartGetMarketStats
  \/ MsMarketResolves
  \/ MsListResolves
  \/ MsSetupRejects
  \/ MsReadResolves
  \/ MsReadRejects
  \/ StartReader
  \/ RdLoadResolves
  \/ RdLoadRejects
  \/ RdCallResolves
  \/ RdCallRejects
  \/ StartWalletProvider
  \/ WpAutoResolves
  \/ WpAutoRejects
  \/ WpConnectStart
  \/ WpConnectResolves
  \/ WpConnectRejects
  \/ WpDisconnectStart
  \/ WpDisconnectResolves
  \/ WpDisconnectRejects
  \/ WpSignStart
  \/ WpSignResolves
  \/ WpSignRejects
  \/ StartValidateTokenData
  \/ StartCreateTokenPage
  \/ WalletChanges
  \/ StartHandleCreateToken
  \/ StartHandleSubmit
  \/ HcCreateTokenResolves
  \/ HcCreateTokenRejects
  \/ HcCreatePoolResolves
  \/ HcCreatePoolRejects
  \/ StartHandleAddLiquidity
  \/ HaAddResolves
  \/ HaAddRejects
  \/ OnCancel

Spec == Init /\ [][Next]_vars

----------------------------------------------------------------------------
(* Claims about retryAsync *)

\* The class the spec (4.1) gives an error message.
TerminalMsgs == {"insufficient funds"}

\* C1: when the operation passed to retryAsync fails on its first k calls and
\* succeeds on call k+1 (k < maxAttempts), retryAsync returns that value
\* after exactly k+1 calls and k sleeps, the i-th sleep lasting delayMs * i;
\* it does not give up before maxAttempts calls have failed.
C1_RetryReturnsFirstSuccess ==
  op = "retryAsync" =>
    /\ (\E i \in 1..Len(net) : net[i].ok) =>
         LET k == Len(net) - 1 IN
           /\ net[k + 1].ok
           /\ \A i \in 1..k : ~net[i].ok
           /\ k < args.maxAttempts
           /\ pc = "done"
           /\ result = Resolved(net[k + 1].info)
           /\ Len(sleeps) = k
           /\ \A i \in 1..k : sleeps[i] = args.delayMs * i
    /\ (pc = "done" /\ result.status = "error") => Len(net) = args.maxAttempts

\* Three failures, then the value, with delays d, 2d, 3d behind it.
C1_Witness ==
  /\ op = "retryAsync" /\ pc = "done"
  /\ args.maxAttempts = 4 /\ args.delayMs = DEFAULT_DELAY_MS
  /\ Len(net) = 4 /\ net[4].ok
  /\ result.status = "ok"
  /\ Len(sleeps) = 3

\* C2: when the operation fails on every call, retryAsync calls it exactly
\* maxAttempts times, sleeps exactly maxAttempts - 1 times (never after the
\* last failed attempt) and throws the error of the last attempt.
C2_RetryExhaustedThrowsLast ==
  op = "retryAsync" =>
    /\ (pc = "done" /\ result.status = "error") =>
         /\ Len(net) = args.maxAttempts
         /\ \A i \in 1..Len(net) : net[i].name = "fn" /\ ~net[i].ok
         /\ Len(sleeps) = args.maxAttempts - 1
         /\ result.error = MkError("", net[Len(net)].info, Len(net))
    /\ (Len(net) = args.maxAttempts /\ \A i \in 1..Len(net) : ~net[i].ok) =>
         pc = "done" /\ result.status = "error"

\* Every attempt failed, the first and the last with different messages.
C2_Witness ==
  /\ op = "retryAsync" /\ pc = "done"
  /\ args.maxAttempts = 3
  /\ result.status = "error"
  /\ net[1].info # net[3].info
  /\ result.error.msg = net[3].info

\* C3: a terminal-classified failure of an operation run under retryAsync is
\* not retried: exactly one attempt, no sleep.
C3_TerminalNotRetried ==
  (/\ op = "retryAsync"
   /\ Len(net) >= 1
   /\ ~net[1].ok
   /\ net[1].info \in TerminalMsgs)
    => Len(net) = 1 /\ sleeps = <<>>

----------------------------------------------------------------------------
(* Claims about the submit path *)

Failed(log) == {i \in 1..Len(log) : ~log[i].ok}

FetchesOk(log) == {i \in 1..Len(log) : log[i].name = "getLatestBlockhash" /\ log[i].ok}

Sends(log) == {i \in 1..Len(log) : log[i].name = "sendRawTransaction"}

\* C4: when confirmation reports block-reference-expired once and everything
\* else succeeds, sendAndConfirmTransaction fetches the latest block reference
\* exactly twice, builds the second submission against the second reference
\* and returns a confirmed result.
C4_ExpiredRefetches ==
  (/\ op = "sendAndConfirmTransaction"
   /\ pc = "done"
   /\ Cardinality(Failed(net)) = 1
   /\ \A i \in Failed(net) :
        net[i].name = "confirmTransaction" /\ net[i].info = "blockhash expired")
    => /\ Cardinality(FetchesOk(net)) = 2
       /\ \E i, j \in Sends(net) : i < j /\ net[i].arg = <<1>> /\ net[j].arg = <<2>>
       /\ result.status = "ok"

\* C5: sendAndConfirmTransaction returns a signature only when, in one and the
\* same attempt, sendRawTransaction answered that signature and the awaited
\* confirmation of that signature then reported it confirmed.
C5_ReturnsOnlyConfirmed ==
  (op = "sendAndConfirmTransaction" /\ pc = "done" /\ result.status = "ok") =>
    LET n == Len(net) IN
      /\ n >= 2
      /\ net[n - 1].name = "sendRawTransaction" /\ net[n - 1].ok
      /\ net[n - 1].info = result.value
      /\ net[n].name = "confirmTransaction" /\ net[n].ok
      /\ net[n].arg[1] = result.value
      /\ net[n].info = "confirmed"

\* The message of the last error sendAndConfirmTransaction observed: the
\* one the signing code threw, else the one the last remote call rejected with.
LastUnderlyingMsg ==
  IF net[Len(net)].ok THEN SignThrows(args.signers) ELSE net[Len(net)].info

\* C6: when every submit/confirm attempt fails, or the block-reference fetch
\* or the signing fails, sendAndConfirmTransaction raises an error with code
\* TRANSACTION_FAILED whose message carries the message of the last observed
\* underlying error; no error with another code leaves the function.
C6_FailsAsTransactionFailed ==
  (op = "sendAndConfirmTransaction" /\ pc = "done") =>
    /\ result.status = "error" =>
         /\ result.error.code = "TRANSACTION_FAILED"
         /\ result.error.msg = "Transaction failed: " \o LastUnderlyingMsg
         /\ LastUnderlyingMsg # ""
    /\ result.status = "error" <=>
         \/ ~net[1].ok
         \/ SignThrows(args.signers) # ""
         \/ /\ Cardinality(Failed(net)) = DEFAULT_MAX_ATTEMPTS
            /\ ~net[Len(net)].ok

\* Three attempts failed, the last one in confirmation with another message
\* than the first failure's.
C6_Witness ==
  /\ op = "sendAndConfirmTransaction" /\ pc = "done"
  /\ result.status = "error"
  /\ Cardinality(Failed(net)) = 3
  /\ net[Len(net)].name = "confirmTransaction"
  /\ net[Len(net)].info = "blockhash expired"
  /\ \E i \in Failed(net) : net[i].info = "node busy"
  /\ result.error.msg = "Transaction failed: blockhash expired"

----------------------------------------------------------------------------
(* Claims about the domain operations *)

\* The exported functions behind CreateToken, CreatePool, AddLiquidity,
\* RemoveLiquidity, Swap and ClaimRewards.
DomainOps ==
  {"createToken", "createMeteoraPool", "addPoolLiquidity", "removePoolLiquidity",
   "svc.createPool"} \cup SvcOps

\* C7: in every domain operation a wallet that is absent or has no public key
\* makes the call fail with code WALLET_NOT_CONNECTED, and the check runs
\* first: no remote call has been made.
C7_WalletCheckedFirst ==
  (op \in DomainOps /\ ~WalletConnected(args.wallet)) =>
    /\ net = <<>>
    /\ pc = "done" => result = Rejected(WalletNotConnected)

\* C8: the balance precheck makes createToken fail with code
\* INSUFFICIENT_BALANCE whenever the fetched balance is strictly below the
\* requirement (0.1 SOL in lamports), and raises nothing when the balance
\* equals the requirement.
C8_InsufficientBalanceCode ==
  (op = "createToken" /\ local.step >= 1) =>
    /\ local.balance < RequiredCreateBalance =>
         /\ pc = "done"
         /\ result.status = "error"
         /\ result.error.code = "INSUFFICIENT_BALANCE"
    /\ local.balance >= RequiredCreateBalance =>
         ~(pc = "done" /\ Len(net) = 1)

\* C9: createMeteoraPool with initialPrice <= 0 (or missing) fails at once
\* with code INVALID_INPUT, before any remote call.
C9_InvalidPriceFailsFirst ==
  (/\ op = "createMeteoraPool"
   /\ WalletConnected(args.wallet)
   /\ args.initialPrice <= 0)
    => /\ net = <<>>
       /\ pc = "done" => (result.status = "error"
                          /\ result.error.code = "INVALID_INPUT")

\* C10: addPoolLiquidity with a connected wallet, a fetched token balance >=
\* tokenAmount, a fetched native balance >= solAmount + fee buffer and no
\* failing remote call (none rejects, the confirmation reports confirmed)
\* invokes pool.addLiquidity exactly once with those amounts, then awaits the
\* confirmation of the transaction it answered, and returns success carrying
\* that transaction.  The amounts are compared by their numeric value,
\* whether they are passed as numbers or as the strings of the liquidity
\* form.
C10_AddLiquidityHappyPath ==
  (/\ op = "addPoolLiquidity" /\ pc = "done"
   /\ WalletConnected(args.wallet)
   /\ Failed(net) = {}
   /\ \A i \in Calls(net, "confirmTransaction") : net[i].info = "confirmed"
   /\ 2 * local.tokenBalance >= Twice(args.tokenAmount)
   /\ 2 * local.solBalance >= Twice(args.solAmount) + 2 * FeeBuffer)
    => LET n == Len(net) IN
         /\ result.status = "ok"
         /\ result.value.success
         /\ Count(net, "pool.addLiquidity") = 1
         /\ net[n - 1].name = "pool.addLiquidity"
         /\ net[n - 1].arg = <<args.tokenAmount.n, args.solAmount.n>>
         /\ net[n].name = "confirmTransaction"
         /\ net[n].arg = <<net[n - 1].info>>
         /\ result.value.transaction = net[n - 1].info
         /\ sleeps = <<>>

----------------------------------------------------------------------------
(* Claims about the liquidity prechecks *)

\* Whether a whole balance is at least the amount a plus extra; the amount
\* "n.5" is covered from n + 1 on.
Covers(balance, a, extra) ==
  balance >= (IF a.type = "fraction" THEN a.n + 1 ELSE a.n) + extra

\* C11: addPoolLiquidity never invokes pool.addLiquidity when the fetched
\* token balance is below tokenAmount or the fetched native balance is below
\* solAmount plus the fee buffer (0.01 SOL in lamports), whether the amounts
\* arrive as numbers or as the strings the liquidity form submits.
C11_AddLiquidityGuarded ==
  (op = "addPoolLiquidity" /\ Count(net, "pool.addLiquidity") > 0) =>
    /\ ~BigIntThrows(args.tokenAmount) /\ ~BigIntThrows(args.solAmount)
    /\ Covers(local.tokenBalance, args.tokenAmount, 0)
    /\ Covers(local.solBalance, args.solAmount, FeeBuffer)

\* The form's string "1" with a native balance one lamport short of
\* 1 + fee buffer: the call ended in the SOL check, nothing submitted.
C11_Witness ==
  /\ op = "addPoolLiquidity" /\ pc = "done"
  /\ args.solAmount = Str(1) /\ args.tokenAmount = Str(50)
  /\ local.tokenBalance = 50
  /\ local.solBalance = FeeBuffer
  /\ Count(net, "pool.addLiquidity") = 0
  /\ result.status = "error"
  /\ result.error.msg = "Failed to add liquidity: Insufficient SOL balance"

\* C12: removePoolLiquidity never invokes pool.removeLiquidity when the
\* fetched LP balance is strictly below lpTokenAmount, and the balance check
\* lets a balance equal to lpTokenAmount through to the submission.
C12_RemoveLiquidityGuarded ==
  op = "removePoolLiquidity" =>
    /\ Count(net, "pool.removeLiquidity") > 0 =>
         /\ ~BigIntThrows(args.lpTokenAmount)
         /\ Covers(local.lpBalance, args.lpTokenAmount, 0)
    /\ (/\ ~BigIntThrows(args.lpTokenAmount)
        /\ local.lpBalance = args.lpTokenAmount.n
        /\ pc = "done")
         => Count(net, "pool.removeLiquidity") > 0

\* The LP balance equals lpTokenAmount and the removal was submitted once
\* and confirmed.
C12_Witness ==
  /\ op = "removePoolLiquidity" /\ pc = "done"
  /\ args.lpTokenAmount = Str(50)
  /\ local.lpBalance = 50
  /\ Count(net, "pool.removeLiquidity") = 1
  /\ result.status = "ok"

----------------------------------------------------------------------------
(* Claims about swap *)

\* C13: swap never submits pool.swap when the signer's balance of the input
\* asset is below inputAmount: the balance is checked before the submission
\* and the call fails without submitting.
C13_SwapBalanceChecked ==
  (op = "svc.swap" /\ args.funds = "short") =>
    Count(net, "pool.swap") = 0

----------------------------------------------------------------------------
(* Claims about getMarketStats *)

\* Whether the state read of pool p succeeded.
ReadOk(p) ==
  \E i \in 1..Len(net) :
    net[i].name = "pool.getPoolState" /\ net[i].arg = <<p>> /\ net[i].ok

\* C14: for every list of pools and every subset of pools whose state read
\* fails, getMarketStats returns exactly the entries of the pools whose read
\* succeeded, in their original relative order, and does not raise; it
\* raises only when loading the market or listing the pools fails.
C14_MarketStatsDropsFailedReads ==
  (op = "svc.getMarketStats" /\ pc = "done") =>
    /\ result.status = "error" <=>
         \E i \in Failed(net) :
           net[i].name \in {"KaminoMarket.load", "market.getAllPools"}
    /\ result.status = "ok" =>
         LET kept == SelectSeq(local.pools, ReadOk) IN
           result.value =
             [k \in 1..Len(kept) |-> StatsEntry(PoolOf(kept[k]), PoolStateOf(kept[k]))]

\* Three pools listed as 3, 1, 2; the read of the middle one failed and the
\* call returned the entries of the first and the last, in that order.
C14_Witness ==
  /\ op = "svc.getMarketStats" /\ pc = "done"
  /\ local.pools = <<3, 1, 2>>
  /\ ReadOk(3) /\ ~ReadOk(1) /\ ReadOk(2)
  /\ result.status = "ok"
  /\ Len(result.value) = 2
  /\ result.value[1].address = <<"base58", 3>>
  /\ result.value[2].address = <<"base58", 2>>

\* C20: every per-pool read has been started before any of them settles,
\* and the returned list does not depend on the order in which the reads
\* settle: the entry of each pool whose read succeeded is that pool's own
\* and stands at the pool's place among the successful ones.
C20_MarketStatsOrderIndependent ==
  op = "svc.getMarketStats" =>
    /\ pc = "ms_reads" => local.started = Len(local.pools)
    /\ (pc = "done" /\ result.status = "ok") =>
         LET n == Len(local.pools)
             place(i) == Cardinality({j \in 1..i : ReadOk(local.pools[j])})
         IN /\ Len(result.value) = place(n)
            /\ \A i \in 1..n :
                 ReadOk(local.pools[i]) =>
                   result.value[place(i)] =
                     StatsEntry(PoolOf(local.pools[i]), PoolStateOf(local.pools[i]))

\* The reads settled in the reverse of the listing order, the first to
\* settle failing; the two survivors are returned in listing order.
C20_Witness ==
  /\ op = "svc.getMarketStats" /\ pc = "done"
  /\ local.pools = <<1, 2, 3>>
  /\ local.completed = <<3, 2, 1>>
  /\ ~ReadOk(3)
  /\ result.status = "ok"
  /\ Len(result.value) = 2
  /\ result.value[1].address = <<"base58", 1>>
  /\ result.value[2].address = <<"base58", 2>>

----------------------------------------------------------------------------
(* Claims about createToken's amounts *)

\* C15: for every whole supply > 0 and every decimals in 0..9, decimals = 0
\* included, the amount createToken hands to mintTo is supply * 10^decimals
\* exactly, and the mint is created with those decimals.
C15_BaseUnitsExact ==
  (op = "createToken" /\ ~args.fraction) =>
    \A i \in 1..Len(net) :
      /\ (net[i].name = "mintTo" /\ net[i].ok) =>
           net[i].arg = <<args.supply * 10^args.decimals>>
      /\ (net[i].name = "createMint" /\ net[i].ok) => net[i].arg = <<args.decimals>>

----------------------------------------------------------------------------
(* Claims about error codes *)

\* The codes of the spec's error taxonomy (section 7).
TaxonomyCodes ==
  {"WALLET_NOT_CONNECTED", "INSUFFICIENT_BALANCE", "INVALID_INPUT",
   "TRANSACTION_FAILED", "STATE_READ_FAILED"}

\* C16: every error a domain operation raises carries one code of the
\* taxonomy, and the code matches the cause: exhausted submission or a failed
\* confirmation surfaces TRANSACTION_FAILED.
C16_ErrorCodesInTaxonomy ==
  (op \in DomainOps /\ pc = "done" /\ result.status = "error") =>
    /\ result.error.code \in TaxonomyCodes
    /\ (/\ Len(net) > 0
        /\ ~net[Len(net)].ok
        /\ net[Len(net)].name \in {"pool.addLiquidity", "pool.removeLiquidity",
                                   "market.createPool", "pool.swap",
                                   "pool.claimRewards", "mintTo",
                                   "confirmTransaction"})
         => result.error.code = "TRANSACTION_FAILED"

----------------------------------------------------------------------------
(* Claims about the mutations one call applies *)

\* The calls of the log that changed the chain: a submitting call that
\* resolved, or one whose rejection came after the transaction landed.
Applied(log) ==
  {i \in 1..Len(log) :
     /\ log[i].name \in {"market.createPool", "pool.addLiquidity", "pool.removeLiquidity"}
     /\ (log[i].ok \/ log[i].info = "Transaction was not confirmed in 30.00 seconds")}

\* C17: one call of addPoolLiquidity, removePoolLiquidity or
\* createMeteoraPool applies at most one mutation to the chain, and exactly
\* one when it returns success, whatever failures the retried call reports.
C17_AtMostOneMutation ==
  op \in {"addPoolLiquidity", "removePoolLiquidity", "createMeteoraPool"} =>
    /\ Cardinality(Applied(net)) <= 1
    /\ (pc = "done" /\ result.status = "ok") => Cardinality(Applied(net)) = 1

----------------------------------------------------------------------------
(* Claims about the single-pool readers *)

\* C18: getUserPosition returns null exactly when the pool reports no
\* position for the user, and returns a position record, never null, when
\* the pool reports a position whose amounts are all zero.
C18_NoPositionDistinct ==
  (op = "svc.getUserPosition" /\ pc = "done" /\ result.status = "ok") =>
    /\ result.value = Null <=> local.answer \in {Null, Undefined}
    /\ local.answer = PositionOf(0) =>
         result.value = [lpTokenBalance |-> 0, tokenAAmount |-> 0,
                         tokenBAmount |-> 0, unclaimedRewards |-> 0]

\* The pool reported a position of zero amounts and the call returned a
\* record.
C18_Witness ==
  /\ op = "svc.getUserPosition" /\ pc = "done"
  /\ local.answer = PositionOf(0)
  /\ result.status = "ok"
  /\ result.value # Null
  /\ result.value.lpTokenBalance = 0

\* C19: for every sequence of trades the pool returns, the sequence
\* getTradeHistory returns is sorted ascending by timestamp and holds
\* exactly the same trades.
C19_TradeHistorySorted ==
  (op = "svc.getTradeHistory" /\ pc = "done" /\ result.status = "ok") =>
    /\ \A i, j \in 1..Len(result.value) :
         i < j => result.value[i].timestamp <= result.value[j].timestamp
    /\ Len(result.value) = Len(local.answer)
    /\ \A ts \in 1..MaxTrades :
         Cardinality({k \in 1..Len(result.value) : result.value[k] = TradeRecord(TradeOf(ts))})
           = Cardinality({k \in 1..Len(local.answer) : local.answer[k] = TradeOf(ts)})

----------------------------------------------------------------------------
(* Claims about confirmation timeouts *)

\* C21: a confirmation that times out in addPoolLiquidity,
\* removePoolLiquidity or createMeteoraPool is a transient error the
\* operation's retry loop retries: the call gives up on it only after the
\* maximum number of attempts.
C21_ConfirmTimeoutRetried ==
  (/\ op \in {"addPoolLiquidity", "removePoolLiquidity", "createMeteoraPool"}
   /\ pc = "done"
   /\ Len(net) > 0
   /\ net[Len(net)].name = "confirmTransaction"
   /\ ~net[Len(net)].ok
   /\ net[Len(net)].info = "Transaction was not confirmed in 30.00 seconds")
    => Count(net, "confirmTransaction") = DEFAULT_MAX_ATTEMPTS

----------------------------------------------------------------------------
(* Claims about the precheck phase *)

\* C22: before the liquidity submission is invoked, addPoolLiquidity and
\* removePoolLiquidity make no mutating chain call: a call that has not
\* (yet) submitted has left the chain as it was.
C22_PrecheckMutatesNothing ==
  (/\ op \in {"addPoolLiquidity", "removePoolLiquidity"}
   /\ Count(net, "pool.addLiquidity") = 0
   /\ Count(net, "pool.removeLiquidity") = 0)
    => \A i \in 1..Len(net) :
         ~(net[i].name = "getOrCreateAssociatedTokenAccount"
           /\ net[i].ok /\ net[i].info = "created")

----------------------------------------------------------------------------
(* Claims about signing and the wallet session *)

\* The session fields a transition sets.
SessionTriple(r) == <<r.wallet, r.connected, r.publicKey>>

\* C23: when signing fails in sendAndConfirmTransaction no raw transaction
\* is submitted, no retry attempt or sleep happens and the caller gets an
\* error; the wallet context's signing callbacks fail with
\* WALLET_NOT_CONNECTED without calling the wallet when no wallet is set,
\* and call a wallet that rejects only once.
C23_SigningFailureTerminal ==
  /\ (op = "sendAndConfirmTransaction" /\ args.signers \in {"empty", "rejects"}) =>
       /\ Count(net, "sendRawTransaction") = 0
       /\ sleeps = <<>>
       /\ attempt = 0
       /\ (Len(net) >= 1 /\ net[1].ok) => (pc = "done" /\ result.status = "error")
  /\ (op = "WalletProvider" /\ pc = "wp_ready" /\ local.call \in SignCalls) =>
       /\ local.before.wallet = Null =>
            (result = Rejected(WalletNotConnected) /\ Len(net) = local.before.net)
       /\ (Len(net) > local.before.net /\ ~net[Len(net)].ok) =>
            (result.status = "error" /\ Len(net) = local.before.net + 1)

\* After a connect and a disconnect, signTransaction was called with no
\* wallet set and failed without a wallet call.
C23_Witness ==
  /\ op = "WalletProvider" /\ pc = "wp_ready"
  /\ local.call = "signTransaction" /\ local.calls = 3
  /\ local.before.wallet = Null
  /\ Count(net, "wallet.disconnect") = 1
  /\ Count(net, "wallet.signTransaction") = 0
  /\ result.status = "error"
  /\ result.error.code = "WALLET_NOT_CONNECTED"

\* C26: whenever the auto-connect, connectWallet and disconnectWallet calls
\* made so far have completed, connected is true if and only if wallet is
\* non-null, and if and only if publicKey is non-null.
C26_SessionConsistent ==
  (op = "WalletProvider" /\ pc = "wp_ready") =>
    /\ local.connected <=> local.wallet # Null
    /\ local.connected <=> local.publicKey # Null

\* An auto-connected session that was disconnected and connected again.
C26_Witness ==
  /\ op = "WalletProvider" /\ pc = "wp_ready"
  /\ args.extension = "phantomConnected"
  /\ local.call = "connectWallet" /\ local.calls = 2
  /\ Count(net, "wallet.disconnect") = 1
  /\ Count(net, "solana.connect") = 2
  /\ Failed(net) = {}
  /\ local.connected /\ local.publicKey = WalletKey

\* C27: a connectWallet that fails (extension missing or connect rejected)
\* leaves wallet, connected and publicKey as they were and re-throws the
\* error; loading is false after connectWallet in every outcome; a
\* disconnectWallet whose wallet.disconnect() fails leaves wallet, connected
\* and publicKey as they were.
C27_FailedTransitionKeepsSession ==
  (op = "WalletProvider" /\ pc = "wp_ready") =>
    /\ local.call = "connectWallet" =>
         /\ ~local.loading
         /\ result.status = "error" =>
              /\ SessionTriple(local) = SessionTriple(local.before)
              /\ IF args.extension = "missing"
                   THEN result.error = WalletNotFound /\ Len(net) = local.before.net
                   ELSE result.error = MkError("", net[Len(net)].info, Len(net))
         /\ result.status = "error" <=>
              (args.extension = "missing" \/ ~net[Len(net)].ok)
    /\ (/\ local.call = "disconnectWallet"
        /\ Len(net) > local.before.net
        /\ ~net[Len(net)].ok)
         => SessionTriple(local) = SessionTriple(local.before)

\* A connected session whose wallet.disconnect() was rejected: still
\* connected.
C27_Witness ==
  /\ op = "WalletProvider" /\ pc = "wp_ready"
  /\ local.call = "disconnectWallet"
  /\ Len(net) > local.before.net
  /\ net[Len(net)].name = "wallet.disconnect" /\ ~net[Len(net)].ok
  /\ local.connected /\ local.wallet = ([isPhantom |-> TRUE]) /\ local.publicKey = WalletKey

----------------------------------------------------------------------------
(* Claims about the steps of the submit path *)

\* The failure messages the spec classes as transient.
TransientMsgs == {"node busy", "blockhash expired"}

\* C24: each network step of sendAndConfirmTransaction is retried on its
\* own: a transient failure of the block-reference fetch is retried up to
\* the maximum attempt count before the call fails, and a failed
\* confirmation is not followed by another run of the submission step.
C24_StepsRetriedSeparately ==
  op = "sendAndConfirmTransaction" =>
    /\ (/\ pc = "done"
        /\ net[Len(net)].name = "getLatestBlockhash"
        /\ ~net[Len(net)].ok
        /\ net[Len(net)].info \in TransientMsgs)
         => Count(net, "getLatestBlockhash") = DEFAULT_MAX_ATTEMPTS
    /\ \A i \in 1..(Len(net) - 1) :
         (net[i].name = "confirmTransaction" /\ ~net[i].ok)
           => net[i + 1].name # "sendRawTransaction"

\* C25: within one call of sendAndConfirmTransaction every attempt submits
\* the same serialized transaction, every confirmation is given the
\* signature and the block reference of the one fetch whose hash the
\* transaction embeds, and the block reference is fetched exactly once
\* whatever the number of retries.
C25_OneReferencePerCall ==
  (op = "sendAndConfirmTransaction" /\ Len(net) >= 1) =>
    /\ Calls(net, "getLatestBlockhash") = {1}
    /\ \A i \in Calls(net, "sendRawTransaction") : net[i].arg = <<net[1].info>>
    /\ \A i \in Calls(net, "confirmTransaction") :
         net[i].arg = <<Signature(net[1].info), net[1].info>>
    /\ local.recentBlockhash \in {0, net[1].info}

\* Three submissions in one call: the first two attempts failed (one in
\* sending, one in confirmation) and the third was confirmed.
C25_Witness ==
  /\ op = "sendAndConfirmTransaction" /\ pc = "done"
  /\ Count(net, "sendRawTransaction") = 3
  /\ Count(net, "confirmTransaction") = 2
  /\ Count(net, "getLatestBlockhash") = 1
  /\ result.status = "ok"
  /\ Len(sleeps) = 2

----------------------------------------------------------------------------
(* Claims about the order of createToken's steps *)

\* The chain steps of createToken that change the chain.
MutatingSteps ==
  {"createMint", "getOrCreateAssociatedTokenAccount", "createMetadataAccount",
   "mintTo"}

\* C28: createToken runs balance check, create mint, create token account,
\* create metadata, mint supply in that order, each after the previous one
\* succeeded; after a failed step nothing runs and the call raises; it
\* returns only after the supply was minted; and a call that fails on its
\* input alone (no chain call failed) has made no mutating step.
C28_CreateTokenOrdered ==
  op = "createToken" =>
    /\ \A i \in 1..Len(net) :
         /\ net[i].name = (<<"getBalance">> \o CtSteps)[i]
         /\ ~net[i].ok => (i = Len(net) /\ pc = "done" /\ result.status = "error")
    /\ (pc = "done" /\ result.status = "ok") =>
         (Len(net) = 5 /\ net[5].name = "mintTo" /\ net[5].ok)
    /\ (pc = "done" /\ result.status = "error" /\ Failed(net) = {}) =>
         \A i \in 1..Len(net) : net[i].name \notin MutatingSteps

----------------------------------------------------------------------------
(* Claims about validateTokenData *)

\* The integer a decimals field holds, when it holds a JavaScript number.
IsNumberIn(v, lo, hi) == v.type = "number" /\ v.n \in lo..hi

\* C29: validateTokenData reports isValid = true exactly when the errors map
\* is empty; it accepts every decimals value in 0..9, 0 included, together
\* with a non-blank name, a non-blank symbol of at most 10 characters and a
\* positive numeric supply (the optional initial price left empty or
\* positive); and it rejects decimals below 0 or above 9.
C29_ValidatorAcceptsZeroToNine ==
  (op = "validateTokenData" /\ pc = "done") =>
    LET t == args.tokenData
        v == result.value
    IN /\ v.isValid <=> (DOMAIN v.errors = {})
       /\ ( /\ IsNumberIn(t.decimals, MIN_DECIMALS, MAX_DECIMALS)
            /\ Trim(t.name) # <<>>
            /\ Trim(t.symbol) # <<>> /\ Len(t.symbol) <= MAX_SYMBOL_LENGTH
            /\ ~IsNaN(t.supply) /\ Twice(t.supply) > 0
            /\ (t.initialPrice = EmptyString
                  \/ (~IsNaN(t.initialPrice) /\ Twice(t.initialPrice) > 0)) )
          => v.isValid
       /\ (t.decimals.type = "number"
             /\ (t.decimals.n < MIN_DECIMALS \/ t.decimals.n > MAX_DECIMALS))
          => (~v.isValid /\ "decimals" \in DOMAIN v.errors)

----------------------------------------------------------------------------
(* Claims about the create-token page *)

\* C30: in the create-token page flow createToken is called only after
\* validateTokenData accepted the form, createMeteoraPool only after
\* createToken returned successfully, the step changes from 'create' to
\* 'liquidity' only after both returned successfully, and the creating flag
\* is false again once the handler has ended, whatever the outcome.  Stated
\* for every call of a callback of the page, net counted from the entry of
\* the call.
C30_PageFlowOrdered ==
  op = "CreateToken" =>
    LET n == local.before.net
        creates == local.call \in {"handleCreateToken", "handleSubmit"}
    IN /\ (pc \in {"hc_token", "hc_pool"}
             \/ (creates /\ Len(net) > n)) =>
            /\ creates
            /\ validateTokenData(local.formData).isValid
            /\ Len(net) > n => net[n + 1].name = "createToken"
       /\ (pc = "hc_pool" \/ (creates /\ Len(net) > n + 1)) =>
            (net[n + 1].name = "createToken" /\ net[n + 1].ok)
       /\ (creates /\ Len(net) > n + 1) =>
            (Len(net) = n + 2 /\ net[n + 2].name = "createMeteoraPool")
       /\ local.step \in {"create", "liquidity"}
       /\ (local.before.step = "create" /\ local.step = "liquidity") =>
            /\ creates /\ pc = "page_ready"
            /\ Len(net) = n + 2 /\ net[n + 1].ok /\ net[n + 2].ok
       /\ (~creates /\ local.before.step = "liquidity") =>
            (Len(net) > n => net[n + 1].name = "addPoolLiquidity")
       /\ pc = "page_ready" => ~local.creating

\* C30 witness: on a page mounted without a wallet, which then connected,
\* a first submission ended with createToken rejecting and the page still at
\* 'create'; the form was submitted again, went through both calls and the
\* page moved from 'create' to the liquidity step with the creating flag
\* down.
C30_Witness ==
  /\ op = "CreateToken" /\ pc = "page_ready"
  /\ ~args.connected /\ local.connected
  /\ local.call = "handleSubmit" /\ local.calls = 2
  /\ local.before.step = "create" /\ local.before.net = 1
  /\ net[1].name = "createToken" /\ ~net[1].ok
  /\ local.step = "liquidity" /\ ~local.creating
  /\ Len(net) = 3 /\ net[3].name = "createMeteoraPool" /\ net[3].ok

====
